---- MODULE Spec2Model ----
(***************************************************************************)
(* A model of mwcp.reporter.Reporter (src/mwcp/reporter.py): the metadata  *)
(* store with its subfield cascades, the parser dispatch loop of           *)
(* run_parser, and the lifecycle of the temp file and the managed temp     *)
(* directory.                                                              *)
(*                                                                         *)
(* Representation.  A text (a Python unicode string) is a sequence of      *)
(* pieces, each piece a TLA+ string.  Values that the code inspects        *)
(* character by character (urls, paths, ports) are written one character   *)
(* per piece; field names and message templates are written as one piece.  *)
(* A Python object handed to the reporting API is a record [t, v]:         *)
(*   t = "str"   v = a text                                                *)
(*   t = "bytes" v = a sequence of bytes (a piece per byte, InvalidByte    *)
(*                   standing for a byte that is not valid utf-8)          *)
(*   t = "list"  v = a sequence of objects                                 *)
(*   t = "dict"  v = a sequence of <<key object, value object>> pairs in   *)
(*                   iteration order                                       *)
(*   t = "int"   v = <<n>>;      t = "none"  v = <<>>                      *)
(* An operation of the store returns [md, exc]: the metadata after it and  *)
(* the exception that left it ("none" when it returned normally).          *)
(***************************************************************************)
EXTENDS Integers, Sequences, FiniteSets, TLC

VARIABLES
    cfg,                \* the constructor's switches (Reporter.__init__)
    metadata,           \* self.metadata
    keyorder,           \* the keys of self.metadata in the order of their insertion
    errors,             \* self.errors
    outputfiles,        \* self.outputfiles
    data,               \* self.data
    p_filename,         \* self.__filename
    p_tempfilename,     \* self.__tempfilename
    p_managed_tempdir,  \* self.__managed_tempdir
    fs,                 \* the files and directories that the reporter has on disk
    made,               \* how many temp names tempfile has handed out
    sys_stdout,         \* sys.stdout: the sink that print writes to
    debug_stdout,       \* the lines written to the BytesIO of __redirect_stdout
    pc,                 \* where run_parser stands: "idle", "loop", "parser"
    frame,              \* the locals of run_parser and __redirect_stdout
    runs,               \* number of run_parser calls so far
    calls,              \* number of API calls made since the reporter was built or the run began
    hist,               \* history: the last add_metadata call and the store before it
    obs                 \* history: what happened in the current run

vars == <<cfg, metadata, keyorder, errors, outputfiles, data, p_filename, p_tempfilename,
          p_managed_tempdir, fs, made, sys_stdout, debug_stdout, pc, frame,
          runs, calls, hist, obs>>

-----------------------------------------------------------------------------
(* Bounds of the model. *)

MaxRuns == 2
MaxCalls == 2
MaxRecords == 2
MaxMappings == 3

-----------------------------------------------------------------------------
(* Python objects. *)

S(text) == [t |-> "str", v |-> text]
B(bytes) == [t |-> "bytes", v |-> bytes]
L(items) == [t |-> "list", v |-> items]
D(pairs) == [t |-> "dict", v |-> pairs]
I(n) == [t |-> "int", v |-> <<n>>]
None == [t |-> "none", v |-> <<>>]

InvalidByte == "\\xff"
ReplacementChar == "\\ufffd"

Ok(md) == [md |-> md, exc |-> "none"]
Raise(md, e) == [md |-> md, exc |-> e]

\* Sequencing of two statements: the second runs when the first did not raise.
Then(r, F(_)) == IF r.exc # "none" THEN r ELSE F(r.md)

\* bool(value) as `if not value` evaluates it
Truthy(x) ==
    CASE x.t = "none" -> FALSE
      [] x.t = "int" -> x.v[1] # 0
      [] OTHER -> Len(x.v) > 0

Decode(bytes) == [i \in 1..Len(bytes) |-> IF bytes[i] = InvalidByte THEN ReplacementChar ELSE bytes[i]]

\* Reporter.convert_to_unicode: [ok, v]; ok = FALSE is the TypeError of str(obj, encoding=...)
convert_to_unicode(x) ==
    CASE x.t = "str" -> [ok |-> TRUE, v |-> x.v]
      [] x.t = "bytes" -> [ok |-> TRUE, v |-> Decode(x.v)]
      [] OTHER -> [ok |-> FALSE, v |-> <<>>]

-----------------------------------------------------------------------------
(* Text functions of the Python library that the reporter uses. *)

LowerAlpha == {"a","b","c","d","e","f","g","h","i","j","k","l","m",
               "n","o","p","q","r","s","t","u","v","w","x","y","z"}
Digits == {"0","1","2","3","4","5","6","7","8","9"}

\* s[i:] and s[:i] with 0-based Python indices
From(s, i) == SubSeq(s, i + 1, Len(s))
UpTo(s, i) == SubSeq(s, 1, i)

HasAt(s, j, pat) == j >= 1 /\ j + Len(pat) - 1 <= Len(s) /\ SubSeq(s, j, j + Len(pat) - 1) = pat

\* s.find(pat): the 1-based position of the first occurrence, 0 when there is none
Find(s, pat) ==
    LET hits == {j \in 1..Len(s) : HasAt(s, j, pat)}
    IN IF hits = {} THEN 0 ELSE CHOOSE j \in hits : \A k \in hits : j <= k

\* the last position of the longest run starting at p of pieces outside stop (p - 1 when empty)
RunEnd(s, p, stop) ==
    LET ends == {e \in (p - 1)..Len(s) : \A k \in p..e : s[k] \notin stop}
    IN CHOOSE e \in ends : \A f \in ends : f <= e

\* s.split(sep) for a one-character separator
RECURSIVE Split(_, _)
Split(s, sep) ==
    LET j == Find(s, <<sep>>)
    IN IF j = 0 THEN <<s>> ELSE <<SubSeq(s, 1, j - 1)>> \o Split(SubSeq(s, j + 1, Len(s)), sep)

-----------------------------------------------------------------------------
(* re.search(r"[a-z\.-]{1,40}://(\[?[^/]+\]?)(/[^?]+)?", valueu), line 253 *)

MaxSchemeLen == 40
SchemeClass == LowerAlpha \cup {".", "-"}

\* the pattern matches from position i: a run of 1..40 scheme characters up
\* to j - 1, "://" at j, and at least one character other than "/" after it
UrlMatchAt(s, i, j) ==
    /\ j > i
    /\ j - i <= MaxSchemeLen
    /\ \A k \in i..(j - 1) : s[k] \in SchemeClass
    /\ HasAt(s, j, <<":", "/", "/">>)
    /\ j + 3 <= Len(s)
    /\ s[j + 3] # "/"

\* [matched, group1, has2, group2] of the leftmost match
UrlSearch(s) ==
    LET starts == {i \in 1..Len(s) : \E j \in (i + 1)..Len(s) : UrlMatchAt(s, i, j)}
    IN IF starts = {}
       THEN [matched |-> FALSE, group1 |-> <<>>, has2 |-> FALSE, group2 |-> <<>>]
       ELSE LET i == CHOOSE a \in starts : \A b \in starts : a <= b
                j == CHOOSE b \in (i + 1)..Len(s) : UrlMatchAt(s, i, b)
                p == j + 3
                e == RunEnd(s, p, {"/"})
                q == e + 2
                two == e + 1 <= Len(s) /\ q <= Len(s) /\ s[q] # "?"
            IN [matched |-> TRUE,
                group1 |-> SubSeq(s, p, e),
                has2 |-> two,
                group2 |-> IF two THEN SubSeq(s, e + 1, RunEnd(s, q, {"?"})) ELSE <<>>]

-----------------------------------------------------------------------------
(* ntpath.basename and ntpath.dirname, lines 235-236 *)

PathSeps == {"\\", "/"}

\* ntpath.splitdrive: the number of leading pieces that form the drive, the
\* UNC share or the device
DriveLen(p) ==
    LET FindSep(from) ==
            LET hits == {k \in from..Len(p) : p[k] \in PathSeps}
            IN IF hits = {} THEN 0 ELSE CHOOSE k \in hits : \A h \in hits : k <= h
        UncPrefix == /\ Len(p) >= 8
                     /\ p[3] = "?" /\ p[4] \in PathSeps
                     /\ p[5] \in {"u", "U"} /\ p[6] \in {"n", "N"} /\ p[7] \in {"c", "C"}
                     /\ p[8] \in PathSeps
    IN IF Len(p) < 2 THEN 0
       ELSE IF p[1] \in PathSeps /\ p[2] \in PathSeps
            THEN LET index == FindSep(IF UncPrefix THEN 9 ELSE 3)
                 IN IF index = 0 THEN Len(p)
                    ELSE LET index2 == FindSep(index + 1)
                         IN IF index2 = 0 THEN Len(p) ELSE index2 - 1
            ELSE IF p[2] = ":" THEN 2 ELSE 0

RECURSIVE RStripSeps(_)
RStripSeps(s) == IF Len(s) > 0 /\ s[Len(s)] \in PathSeps THEN RStripSeps(SubSeq(s, 1, Len(s) - 1)) ELSE s

\* ntpath.split: [head, tail]
NtSplit(path) ==
    LET d == DriveLen(path)
        p == From(path, d)
        cut == {i \in 0..Len(p) : \A k \in (i + 1)..Len(p) : p[k] \notin PathSeps}
        i == CHOOSE a \in cut : \A b \in cut : a <= b
        head == UpTo(p, i)
        stripped == RStripSeps(head)
    IN [head |-> UpTo(path, d) \o (IF stripped = <<>> THEN head ELSE stripped),
        tail |-> From(p, i)]

basename(p) == NtSplit(p).tail
dirname(p) == NtSplit(p).head

-----------------------------------------------------------------------------
(* int(values[0]) and re.search(r"[0-9]{1,5}", values[0]), lines 347-349 *)

HasDigit(s) == \E k \in 1..Len(s) : s[k] \in Digits

DigitValue(c) ==
    CASE c = "0" -> 0 [] c = "1" -> 1 [] c = "2" -> 2 [] c = "3" -> 3 [] c = "4" -> 4
      [] c = "5" -> 5 [] c = "6" -> 6 [] c = "7" -> 7 [] c = "8" -> 8 [] c = "9" -> 9

RECURSIVE Decimal(_)
Decimal(s) == IF s = <<>> THEN 0 ELSE 10 * Decimal(SubSeq(s, 1, Len(s) - 1)) + DigitValue(s[Len(s)])

\* int(text): [ok, n]; ok = FALSE is the ValueError of a text that is no
\* optionally signed run of digits
ParseInt(s) ==
    LET signed == Len(s) > 0 /\ s[1] \in {"+", "-"}
        digits == IF signed THEN Tail(s) ELSE s
    IN IF Len(digits) > 0 /\ \A k \in 1..Len(digits) : digits[k] \in Digits
       THEN [ok |-> TRUE, n |-> IF signed /\ s[1] = "-" THEN 0 - Decimal(digits) ELSE Decimal(digits)]
       ELSE [ok |-> FALSE, n |-> 0]

MaxPort == 65535

-----------------------------------------------------------------------------
(* The field taxonomy (mwcp/resources/fields.json, loaded at line 141): the *)
(* fields the reporter and its specification name, with their types.        *)

ListOfStrings ==
    {"debug", "address", "c2_address", "url", "c2_url", "urlpath",
     "username", "password", "filepath", "filename", "directory",
     "servicename", "servicedisplayname", "servicedescription", "serviceimage",
     "servicedll", "registrypath", "registrydata", "missionid", "useragent",
     "interval", "version", "mutex", "injectionprocess", "key"}

ListOfStringTuples ==
    {"socketaddress", "c2_socketaddress", "credential", "port", "listenport",
     "registrypathdata", "service", "outputfile"}

DictOfStrings == {"other"}

FieldNames == ListOfStrings \cup ListOfStringTuples \cup DictOfStrings

\* a field name as a text, and the name a text spells ("" when it spells none)
N(name) == <<name>>
NameOf(keyu) == IF Len(keyu) = 1 THEN keyu[1] ELSE ""

\* a key that self.fields does not hold is taken for a listofstrings field
fieldtypeDefault(keyu) ==
    CASE NameOf(keyu) \in ListOfStringTuples -> "listofstringtuples"
      [] NameOf(keyu) \in DictOfStrings -> "dictofstrings"
      [] OTHER -> "listofstrings"

\* self.fields[keyu]['type']
fieldtype(keyu) ==
    CASE NameOf(keyu) \in ListOfStrings -> "listofstrings"
      [] NameOf(keyu) \in ListOfStringTuples -> "listofstringtuples"
      [] NameOf(keyu) \in DictOfStrings -> "dictofstrings"
      [] OTHER -> "absent"

-----------------------------------------------------------------------------
(* The metadata store: a function from the names present to their values.  *)

Has(md, name) == name \in DOMAIN md
Get(md, name) == IF Has(md, name) THEN md[name] ELSE <<>>
Put(md, name, val) == [k \in DOMAIN md \cup {name} |-> IF k = name THEN val ELSE md[k]]
\* the membership test finds no value in any list
ContainsNever(seq, x) == FALSE

\* valueu in self.metadata[keyu]: the list holds the value
Contains(seq, x) == \E i \in 1..Len(seq) : seq[i] = x

\* the converted string is appended whether or not the field holds it
AppendsStringAlways(md, name, valueu) == TRUE

\* lines 222-225: the condition under which a converted string is appended
AppendsString(md, name, valueu) ==
    \/ ~Contains(Get(md, name), valueu)
    \/ cfg.disablevaluededup
    \/ name = "debug"

\* a converted tuple is appended whatever the field holds
AppendsTupleAlways(md, name, values) == TRUE

\* lines 313-321: the condition under which a converted tuple is appended
AppendsTuple(md, name, values) ==
    \/ cfg.disablevaluededup
    \/ ~Contains(Get(md, name), values)

\* the message of an except clause, lines 301-302 and 388-389
ErrorAdding(keyu, exc) == <<"Error adding metadata for key: ">> \o keyu \o <<"\n", "Traceback: " \o exc>>

RECURSIVE add_metadata(_, _, _)
RECURSIVE debug(_, _)

\* the except clause of the three typed handlers
ExceptException(r, keyu) ==
    IF r.exc = "none" THEN r ELSE debug(r.md, ErrorAdding(keyu, r.exc))

-----------------------------------------------------------------------------
(* The subfield cascades.  What a handler does after storing a value does  *)
(* not depend on the store: it is a sequence of steps, each a call of      *)
(* add_metadata, a call of debug, or an exception raised by the handler's  *)
(* own code, run in order until one raises.                                *)

Add(name, value) == [op |-> "add", key |-> S(N(name)), value |-> value]
Debug(msg) == [op |-> "debug", key |-> S(N("debug")), value |-> S(msg)]
Throw(exc) == [op |-> "raise", key |-> S(N(exc)), value |-> None]

Tcp == <<"t", "c", "p">>
Udp == <<"u", "d", "p">>
Icmp == <<"i", "c", "m", "p">>

\* lines 258-276: an address that starts with "["
BracketedSteps(keyu, address) ==
    LET parts == Split(address, "]")
    IN IF Len(parts) > 1
       THEN IF parts[2] # <<>>
            THEN <<Add(IF keyu = N("c2_url") THEN "c2_socketaddress" ELSE "socketaddress",
                       L(<<S(From(parts[1], 1)), S(From(parts[2], 1)), S(Tcp)>>))>>
            ELSE <<>>
       ELSE <<Add(IF keyu = N("c2_url") THEN "c2_address" ELSE "address", S(From(parts[1], 1)))>>

\* the address is recorded as it stands, port included
PlainStepsUnsplit(keyu, address) ==
    <<Add(IF keyu = N("c2_url") THEN "c2_address" ELSE "address", S(address))>>

\* lines 277-294: a regular domain or ipv4 address
PlainSteps(keyu, address) ==
    LET parts == Split(address, ":")
    IN IF Len(parts) > 1
       THEN IF parts[2] # <<>>
            THEN <<Add(IF keyu = N("c2_url") THEN "c2_socketaddress" ELSE "socketaddress",
                       L(<<S(parts[1]), S(parts[2]), S(Tcp)>>))>>
            ELSE <<>>
       ELSE <<Add(IF keyu = N("c2_url") THEN "c2_address" ELSE "address", S(parts[1]))>>

\* lines 249-298: url and c2_url
UrlSteps(keyu, valueu) ==
    LET match == UrlSearch(valueu)
        address == match.group1
    IN IF match.matched
       THEN (IF address # <<>>
             THEN IF address[1] = "[" THEN BracketedSteps(keyu, address) ELSE PlainSteps(keyu, address)
             ELSE <<>>)
            \o (IF match.has2 THEN <<Add("urlpath", S(match.group2))>> ELSE <<>>)
       ELSE <<Debug(<<"Error parsing as url: ">> \o valueu)>>

Exe == <<".", "e", "x", "e">>

\* the whole serviceimage is taken for the file path
ServiceImageStepsWhole(valueu) == <<Add("filepath", S(valueu))>>

\* lines 241-246: serviceimage
ServiceImageSteps(valueu) ==
    IF Find(valueu, Exe) # 0
    THEN <<Add("filepath", S(UpTo(valueu, (Find(valueu, Exe) - 1) + 4)))>>
    ELSE <<>>

\* an address yields a c2_address, which yields the address again
StringStepsCyclic(keyu, valueu) ==
    (IF keyu = N("filepath")
     THEN <<Add("filename", S(basename(valueu))), Add("directory", S(dirname(valueu)))>> ELSE <<>>)
    \o (IF keyu = N("c2_url") THEN <<Add("url", S(valueu))>> ELSE <<>>)
    \o (IF keyu = N("c2_address") THEN <<Add("address", S(valueu))>> ELSE <<>>)
    \o (IF keyu = N("address") THEN <<Add("c2_address", S(valueu))>> ELSE <<>>)
    \o (IF keyu = N("serviceimage") THEN ServiceImageSteps(valueu) ELSE <<>>)
    \o (IF keyu = N("servicedll") THEN <<Add("filepath", S(valueu))>> ELSE <<>>)
    \o (IF keyu = N("url") \/ keyu = N("c2_url") THEN UrlSteps(keyu, valueu) ELSE <<>>)

\* lines 227-298: the steps that follow storing valueu under a listofstrings field
StringSteps(keyu, valueu) ==
    (IF keyu = N("filepath")
     THEN <<Add("filename", S(basename(valueu))), Add("directory", S(dirname(valueu)))>> ELSE <<>>)
    \o (IF keyu = N("c2_url") THEN <<Add("url", S(valueu))>> ELSE <<>>)
    \o (IF keyu = N("c2_address") THEN <<Add("address", S(valueu))>> ELSE <<>>)
    \o (IF keyu = N("serviceimage") THEN ServiceImageSteps(valueu) ELSE <<>>)
    \o (IF keyu = N("servicedll") THEN <<Add("filepath", S(valueu))>> ELSE <<>>)
    \o (IF keyu = N("url") \/ keyu = N("c2_url") THEN UrlSteps(keyu, valueu) ELSE <<>>)

Strs(values) == [i \in 1..Len(values) |-> S(values[i])]
Received(n) == <<ToString(n)>>

\* lines 342-359: port and listenport
PortSteps(keyu, values) ==
    (IF Len(values) # 2
     THEN <<Debug(<<"Expected two values in type ">> \o keyu \o <<", received ">> \o Received(Len(values)))>>
     ELSE <<>>)
    \o (IF HasDigit(values[1])
        THEN IF ParseInt(values[1]).ok
             THEN IF ParseInt(values[1]).n < 0 \/ ParseInt(values[1]).n > MaxPort
                  THEN <<Debug(<<"Expected port to be number between 0 and 65535">>)>>
                  ELSE <<>>
             ELSE <<Throw("ValueError")>>
        ELSE <<Debug(<<"Expected port to be number between 0 and 65535">>)>>)
    \o (IF Len(values) >= 2 /\ values[2] \notin {Tcp, Udp, Icmp}
        THEN <<Debug(<<"Expected port type to be tcp or udp (or icmp)">>)>>
        ELSE <<>>)

\* lines 367-385: service
ServiceSteps(values) ==
    LET Element(i, name) == IF Len(values) >= i /\ values[i] # <<>> THEN <<Add(name, S(values[i]))>> ELSE <<>>
    IN Element(1, "servicename") \o Element(2, "servicedisplayname")
       \o Element(3, "servicedescription") \o Element(4, "serviceimage")
       \o Element(5, "servicedll")
       \o (IF Len(values) # 5
           THEN <<Debug(<<"Expected 5 values in type service, received ">> \o Received(Len(values)))>>
           ELSE <<>>)

\* a socketaddress yields its address and nothing else, and no other field cascades
TupleStepsAddressOnly(keyu, values) ==
    IF keyu = N("socketaddress") THEN <<Add("address", S(values[1]))>> ELSE <<>>

\* lines 323-385: the steps that follow storing values under a listofstringtuples field
TupleSteps(keyu, values) ==
    CASE keyu = N("c2_socketaddress") ->
            <<Add("socketaddress", L(Strs(values))), Add("c2_address", S(values[1]))>>
      [] keyu = N("socketaddress") ->
            <<Add("address", S(values[1]))>>
            \o (IF Len(values) >= 3 THEN <<Add("port", L(<<S(values[2]), S(values[3])>>))>> ELSE <<>>)
            \o (IF Len(values) # 3
                THEN <<Debug(<<"Expected three values in type socketaddress, received ">> \o Received(Len(values)))>>
                ELSE <<>>)
      [] keyu = N("credential") ->
            <<Add("username", S(values[1]))>>
            \o (IF Len(values) >= 2 THEN <<Add("password", S(values[2]))>> ELSE <<>>)
            \o (IF Len(values) # 2
                THEN <<Debug(<<"Expected two values in type credential, received ">> \o Received(Len(values)))>>
                ELSE <<>>)
      [] keyu = N("port") \/ keyu = N("listenport") -> PortSteps(keyu, values)
      [] keyu = N("registrypathdata") ->
            <<Add("registrypath", S(values[1]))>>
            \o (IF Len(values) >= 2 THEN <<Add("registrydata", S(values[2]))>> ELSE <<>>)
            \o (IF Len(values) # 2
                THEN <<Debug(<<"Expected two values in type registrypathdata, received ">> \o Received(Len(values)))>>
                ELSE <<>>)
      [] keyu = N("service") -> ServiceSteps(values)
      [] OTHER -> <<>>

\* the steps in order, until one raises
RECURSIVE RunSteps(_, _)
RunSteps(md, steps) ==
    IF steps = <<>> THEN Ok(md)
    ELSE LET st == Head(steps)
             r == CASE st.op = "add" -> add_metadata(md, st.key, st.value)
                    [] st.op = "debug" -> debug(md, st.value.v)
                    [] OTHER -> Raise(md, NameOf(st.key.v))
         IN Then(r, LAMBDA m : RunSteps(m, Tail(steps)))

\* for thisvalue in value (line 310): [ok, items]; ok = FALSE is the TypeError
\* of an object that cannot be iterated
Iterate(value) ==
    CASE value.t = "list" -> [ok |-> TRUE, items |-> value.v]
      [] value.t = "str" -> [ok |-> TRUE, items |-> [i \in 1..Len(value.v) |-> S(<<value.v[i]>>)]]
      [] value.t = "bytes" ->
            [ok |-> TRUE,
             items |-> [i \in 1..Len(value.v) |->
                            IF cfg.PY3 THEN [t |-> "int", v |-> <<value.v[i]>>] ELSE B(<<value.v[i]>>)]]
      [] value.t = "dict" -> [ok |-> TRUE, items |-> [i \in 1..Len(value.v) |-> value.v[i][1]]]
      [] OTHER -> [ok |-> FALSE, items |-> <<>>]

\* lines 310-311: [ok, v], the items converted in order; ok = FALSE when one cannot be
ConvertAll(items) ==
    [ok |-> \A i \in 1..Len(items) : convert_to_unicode(items[i]).ok,
     v |-> [i \in 1..Len(items) |-> convert_to_unicode(items[i]).v]]

\* the subfields are parsed whatever disableautosubfieldparsing says
add_metatadata_listofstringsParsing(md, keyu, value) ==
    ExceptException(
        IF ~convert_to_unicode(value).ok THEN Raise(md, "TypeError")
        ELSE LET valueu == convert_to_unicode(value).v
                 name == NameOf(keyu)
                 stored == IF AppendsString(md, name, valueu)
                           THEN Put(md, name, Append(Get(md, name), valueu))
                           ELSE Put(md, name, Get(md, name))
             IN RunSteps(stored, StringSteps(keyu, valueu)),
        keyu)

\* Reporter.__add_metatadata_listofstrings, lines 218-302
add_metatadata_listofstrings(md, keyu, value) ==
    ExceptException(
        IF ~convert_to_unicode(value).ok THEN Raise(md, "TypeError")
        ELSE LET valueu == convert_to_unicode(value).v
                 name == NameOf(keyu)
                 stored == IF AppendsString(md, name, valueu)
                           THEN Put(md, name, Append(Get(md, name), valueu))
                           ELSE Put(md, name, Get(md, name))
             IN IF cfg.disableautosubfieldparsing THEN Ok(stored)
                ELSE RunSteps(stored, StringSteps(keyu, valueu)),
        keyu)

\* the tuple is stored and no subfield is parsed
add_metadata_listofstringtuplesPlain(md, keyu, value) ==
    ExceptException(
        IF ~Truthy(value)
        THEN debug(md, <<"no values provided for ">> \o keyu \o <<", skipping">>)
        ELSE IF ~Iterate(value).ok \/ ~ConvertAll(Iterate(value).items).ok THEN Raise(md, "TypeError")
        ELSE LET values == ConvertAll(Iterate(value).items).v
                 name == NameOf(keyu)
                 stored == IF AppendsTuple(md, name, values)
                           THEN Put(md, name, Append(Get(md, name), values))
                           ELSE Put(md, name, Get(md, name))
             IN Ok(stored),
        keyu)

\* Reporter.__add_metadata_listofstringtuples, lines 304-389
add_metadata_listofstringtuples(md, keyu, value) ==
    ExceptException(
        IF ~Truthy(value)
        THEN debug(md, <<"no values provided for ">> \o keyu \o <<", skipping">>)
        ELSE IF ~Iterate(value).ok \/ ~ConvertAll(Iterate(value).items).ok THEN Raise(md, "TypeError")
        ELSE LET values == ConvertAll(Iterate(value).items).v
                 name == NameOf(keyu)
                 stored == IF AppendsTuple(md, name, values)
                           THEN Put(md, name, Append(Get(md, name), values))
                           ELSE Put(md, name, Get(md, name))
             IN IF cfg.disableautosubfieldparsing THEN Ok(stored)
                ELSE RunSteps(stored, TupleSteps(keyu, values)),
        keyu)

\* how "%s" % obj spells an object in a message
Spell(x) == IF x.t \in {"str", "bytes"} THEN x.v ELSE <<"<" \o x.t \o ">">>

\* the value recorded last replaces the one that the sub-key held
MergeOtherClobbers(md, thiskeyu, thisvalueu) ==
    LET other == IF Has(md, "other") THEN md["other"] ELSE <<>>
    IN Put(md, "other", [k \in DOMAIN other \cup {thiskeyu} |->
                            IF k = thiskeyu THEN S(thisvalueu) ELSE other[k]])

\* lines 398-414: one text value merged into metadata['other']
MergeOther(md, thiskeyu, thisvalueu) ==
    LET other == IF Has(md, "other") THEN md["other"] ELSE <<>>
        merged ==
            IF thiskeyu \in DOMAIN other
            THEN LET existingvalue == other[thiskeyu]
                 IN IF existingvalue.t = "list"
                    THEN IF ~Contains(existingvalue.v, thisvalueu)
                         THEN L(Append(existingvalue.v, thisvalueu))
                         ELSE existingvalue
                    ELSE IF thisvalueu # existingvalue.v
                         THEN L(<<existingvalue.v, thisvalueu>>)
                         ELSE existingvalue
            ELSE S(thisvalueu)
    IN Put(md, "other", [k \in DOMAIN other \cup {thiskeyu} |-> IF k = thiskeyu THEN merged ELSE other[k]])

\* lines 394-419: the loop over the entries of a mapping
RECURSIVE OtherEntries(_, _)
OtherEntries(md, pairs) ==
    IF pairs = <<>> THEN Ok(md)
    ELSE LET thiskey == Head(pairs)[1]
             thisvalue == Head(pairs)[2]
             r == IF thisvalue.t = "str"
                  THEN IF convert_to_unicode(thiskey).ok
                       THEN Ok(MergeOther(md, convert_to_unicode(thiskey).v, convert_to_unicode(thisvalue).v))
                       ELSE Raise(md, "TypeError")
                  ELSE debug(md, <<"Could not add object of ", thisvalue.t, " to metadata under other using key ">>
                                 \o Spell(thiskey))
         IN Then(r, LAMBDA m : OtherEntries(m, Tail(pairs)))

\* Reporter.__add_metadata_dictofstrings, lines 391-422
add_metadata_dictofstrings(md, keyu, value) ==
    ExceptException(
        CASE value.t = "dict" -> OtherEntries(md, value.v)
          [] value.t \in {"list", "str"} -> IF Len(value.v) = 0 THEN Ok(md) ELSE Raise(md, "TypeError")
          [] value.t = "bytes" ->
                IF Len(value.v) = 0 THEN Ok(md)
                ELSE Raise(md, IF cfg.PY3 THEN "IndexError" ELSE "TypeError")
          [] OTHER -> Raise(md, "TypeError"),
        keyu)

\* a key that self.fields does not hold is not refused: its value is stored
\* as that of a listofstrings field
add_metadataAnyKey(md, key, value) ==
    IF ~convert_to_unicode(key).ok
    THEN debug(md, <<"Error adding metadata due to failure converting key to unicode: ", "Traceback: TypeError">>)
    ELSE LET keyu == convert_to_unicode(key).v
         IN CASE fieldtype(keyu) = "listofstringtuples" -> add_metadata_listofstringtuples(md, keyu, value)
              [] fieldtype(keyu) = "dictofstrings" -> add_metadata_dictofstrings(md, keyu, value)
              [] OTHER -> add_metatadata_listofstrings(md, keyu, value)

\* Reporter.add_metadata, lines 424-457
add_metadata(md, key, value) ==
    IF ~convert_to_unicode(key).ok
    THEN debug(md, <<"Error adding metadata due to failure converting key to unicode: ", "Traceback: TypeError">>)
    ELSE LET keyu == convert_to_unicode(key).v
         IN CASE fieldtype(keyu) = "listofstrings" -> add_metatadata_listofstrings(md, keyu, value)
              [] fieldtype(keyu) = "listofstringtuples" -> add_metadata_listofstringtuples(md, keyu, value)
              [] fieldtype(keyu) = "dictofstrings" -> add_metadata_dictofstrings(md, keyu, value)
              [] OTHER -> debug(md, <<"Error adding metadata because ">> \o keyu \o <<" is not an allowed key">>)

\* debug records the message whatever disabledebug says
debugUnconditional(md, message) == add_metadata(md, S(N("debug")), S(message))

\* Reporter.debug, lines 211-216
debug(md, message) ==
    IF ~cfg.disabledebug THEN add_metadata(md, S(N("debug")), S(message)) ELSE Ok(md)

-----------------------------------------------------------------------------
(* The order of the keys of self.metadata.  A handler inserts its key when  *)
(* it reaches `self.metadata[keyu] = []` (lines 222-223 and 313-314) or     *)
(* `self.metadata['other'] = {}` (lines 398-399); a dict keeps its keys in  *)
(* the order of insertion under Python 3.7 and later.                       *)

\* the key that a call of debug may insert
DebugTrace == IF cfg.disabledebug THEN <<>> ELSE <<"debug">>

\* lines 394-419: the keys that the entries of a mapping insert, in order
RECURSIVE OtherTrace(_)
OtherTrace(pairs) ==
    IF pairs = <<>> THEN <<>>
    ELSE IF Head(pairs)[2].t = "str"
         THEN IF convert_to_unicode(Head(pairs)[1]).ok
              THEN <<"other">> \o OtherTrace(Tail(pairs))
              ELSE DebugTrace
         ELSE DebugTrace \o OtherTrace(Tail(pairs))

RECURSIVE KeyTrace(_, _)
RECURSIVE StepsTrace(_)

\* the keys that the steps of a cascade insert, in order; a step that raises
\* ends the handler in its except clause
StepsTrace(steps) ==
    IF steps = <<>> THEN <<>>
    ELSE CASE Head(steps).op = "add" ->
                KeyTrace(Head(steps).key, Head(steps).value) \o StepsTrace(Tail(steps))
           [] Head(steps).op = "debug" -> DebugTrace \o StepsTrace(Tail(steps))
           [] OTHER -> DebugTrace

\* the keys that add_metadata(key, value) inserts into a store that holds
\* none of them, in the order in which the handlers of lines 218-457 insert them
KeyTrace(key, value) ==
    IF ~convert_to_unicode(key).ok THEN DebugTrace
    ELSE LET keyu == convert_to_unicode(key).v
         IN CASE fieldtype(keyu) = "listofstrings" ->
                    IF ~convert_to_unicode(value).ok THEN DebugTrace
                    ELSE <<NameOf(keyu)>>
                         \o (IF cfg.disableautosubfieldparsing THEN <<>>
                             ELSE StepsTrace(StringSteps(keyu, convert_to_unicode(value).v)))
              [] fieldtype(keyu) = "listofstringtuples" ->
                    IF ~Truthy(value) \/ ~Iterate(value).ok \/ ~ConvertAll(Iterate(value).items).ok
                    THEN DebugTrace
                    ELSE <<NameOf(keyu)>>
                         \o (IF cfg.disableautosubfieldparsing THEN <<>>
                             ELSE StepsTrace(TupleSteps(keyu, ConvertAll(Iterate(value).items).v)))
              [] fieldtype(keyu) = "dictofstrings" ->
                    IF value.t = "dict" THEN OtherTrace(value.v)
                    ELSE IF Len(value.v) = 0 THEN <<>> ELSE DebugTrace
              [] OTHER -> DebugTrace

\* the keys of the store `after`, those of `order` first and then the new
\* ones in the order in which `trace` names them
KeysAfter(order, after, trace) ==
    LET Old(k) == k \in DOMAIN after
        kept == SelectSeq(order, Old)
        First(i) == /\ trace[i] \in DOMAIN after
                    /\ \A j \in 1..Len(kept) : kept[j] # trace[i]
                    /\ \A j \in 1..(i - 1) : trace[j] # trace[i]
        RECURSIVE New(_)
        New(i) == IF i > Len(trace) THEN <<>>
                  ELSE (IF First(i) THEN <<trace[i]>> ELSE <<>>) \o New(i + 1)
    IN kept \o New(1)

-----------------------------------------------------------------------------
(* The values that the model hands to the reporting API. *)

UrlPort == <<"h","t","t","p",":","/","/","b","a","d",".","c","o","m",":","8","0","/","x">>
UrlV6 == <<"h","t","t","p",":","/","/","[","f","e","8","0",":",":","1","]","/","y">>
UrlV6Port == <<"h","t","t","p",":","/","/","[","f","e","8","0",":",":","1","]",":","8","0","/","y">>
UrlFtp == <<"f","t","p",":","/","/","h",".","i","o",":","2","1","/","p","/","q">>
NoUrl == <<"n","o","u","r","l">>
Host == <<"b","a","d",".","c","o","m">>
HostV6 == <<"f","e","8","0",":",":","1">>
Port80 == <<"8","0">>
PortBig == <<"9","9","9","9","9">>
PortOdd == <<"8","a">>
Xyz == <<"x","y","z">>
Alice == <<"a","l","i","c","e">>
Secret == <<"s","e","c","r","e","t">>
SvcName == <<"s","v","c","n","a","m","e">>
Image == <<"C",":","\\","x",".","e","x","e"," ","e","v","i","l">>
ImagePath == <<"C",":","\\","x",".","e","x","e">>
FilePath == <<"C",":","\\","d","\\","f",".","d","l","l">>
Note == <<"n","o","t","e">>

Call(key, value) == [key |-> key, value |-> value]
Field(name) == S(N(name))

\* the add_metadata calls of the model: every field type, with values of the
\* right and of the wrong shape
Records ==
    << Call(Field("url"), S(UrlPort)),
       Call(Field("c2_url"), S(UrlV6)),
       Call(Field("c2_url"), S(UrlPort)),
       Call(Field("url"), S(UrlV6Port)),
       Call(Field("url"), S(NoUrl)),
       Call(Field("address"), S(Host)),
       Call(Field("address"), B(Host)),
       Call(Field("address"), I(5)),
       Call(Field("debug"), S(Note)),
       Call(Field("debug"), None),
       Call(Field("credential"), L(<<S(Alice), S(Secret)>>)),
       Call(Field("credential"), L(<<S(Alice)>>)),
       Call(Field("credential"), L(<<>>)),
       Call(Field("credential"), S(<<"a", "b">>)),
       Call(Field("credential"), B(<<"a", "b">>)),
       Call(Field("credential"), I(7)),
       Call(Field("credential"), L(<<S(Alice), I(1)>>)),
       Call(Field("nosuchkey"), S(Host)),
       Call(I(3), S(Host)),
       Call(Field("socketaddress"), L(<<S(Host), S(Port80), S(Tcp)>>)),
       Call(Field("c2_socketaddress"), L(<<S(Host)>>)),
       Call(Field("port"), L(<<S(Port80), S(Tcp)>>)),
       Call(Field("port"), L(<<S(PortBig), S(Tcp)>>)),
       Call(Field("port"), L(<<S(PortOdd), S(Tcp)>>)),
       Call(Field("listenport"), L(<<S(Port80), S(Xyz)>>)),
       Call(Field("service"), L(<<S(SvcName), S(<<>>), S(<<>>), S(Image), S(<<>>)>>)),
       Call(Field("servicedll"), S(FilePath)),
       Call(Field("registrypathdata"), L(<<S(Note)>>)),
       Call(Field("other"), D(<<<<S(Note), S(Alice)>>, <<S(Xyz), I(1)>>>>)),
       Call(Field("other"), D(<<<<S(Note), S(Secret)>>>>)),
       Call(Field("url"), S(UrlFtp)),
       Call(Field("service"), L(<<S(SvcName), S(Note), S(Xyz), S(Image), S(FilePath)>>)),
       Call(Field("service"), L(<<S(SvcName), S(Note)>>)),
       Call(Field("serviceimage"), S(Note)) >>

\* the urls of Records with a plain host, a port and a path, and their parts
PlainUrls ==
    << [url |-> UrlPort, host |-> Host, port |-> Port80, path |-> <<"/", "x">>],
       [url |-> UrlFtp, host |-> <<"h", ".", "i", "o">>, port |-> <<"2", "1">>,
        path |-> <<"/", "p", "/", "q">>] >>

-----------------------------------------------------------------------------
(* The reporter as constructed, and add_metadata called on it directly. *)

Switches ==
    [disabledebug : BOOLEAN, disableoutputfiles : {FALSE}, disabletempcleanup : {FALSE},
     disableautosubfieldparsing : BOOLEAN, disablevaluededup : BOOLEAN,
     base64outputfiles : {FALSE}, PY3 : BOOLEAN]

NoCall == [op |-> "none", key |-> None, value |-> None, before |-> <<>>, exc |-> "none"]

\* run_parser's locals before any run: name, filename, found, the parsers that
\* iter_parsers yields and the position in them, and orig_stdout
NoFrame == [name |-> <<>>, filename |-> <<>>, data |-> <<>>, found |-> FALSE,
            parsers |-> <<>>, idx |-> 0, orig_stdout |-> "none"]

\* nothing observed yet: the parsers constructed, those whose run was entered,
\* those that raised, what the parsers recorded, the temp paths created, the
\* paths that filename() and managed_tempdir() returned to the parsers, the
\* number of lines that the parsers printed, the mappings recorded under other, the
\* output_file calls made, whether the reporter held results of all kinds when the run began, whether
\* the run before this one matched no parser, and whether run_parser has returned
NoRun == [constructed |-> <<>>, entered |-> <<>>, failed |-> {}, findings |-> <<>>,
          created |-> {}, given |-> <<>>, printed |-> 0, mappings |-> <<>>, outputs |-> <<>>,
          dirty |-> FALSE, after_none |-> FALSE,
          returned |-> FALSE]

\* Reporter.__init__, lines 98-141
Constructed ==
    /\ metadata = <<>>
    /\ keyorder = <<>>
    /\ errors = <<>>
    /\ outputfiles = <<>>
    /\ data = <<>>
    /\ p_filename = <<>>
    /\ p_tempfilename = <<>>
    /\ p_managed_tempdir = <<>>
    /\ fs = {}
    /\ made = 0
    /\ sys_stdout = "orig"
    /\ debug_stdout = <<>>
    /\ pc = "idle"
    /\ frame = NoFrame
    /\ runs = 0
    /\ calls = 0
    /\ hist = NoCall
    /\ obs = NoRun

InitStore == cfg \in Switches /\ Constructed

\* reporter.add_metadata(key, value) called on the reporter
AddMetadataCall(c) ==
    /\ pc = "idle"
    /\ calls < MaxRecords
    /\ LET r == add_metadata(metadata, c.key, c.value)
       IN /\ metadata' = r.md
          /\ keyorder' = KeysAfter(keyorder, r.md, KeyTrace(c.key, c.value))
          /\ hist' = [op |-> "add_metadata", key |-> c.key, value |-> c.value,
                      before |-> metadata, exc |-> r.exc]
    /\ calls' = calls + 1
    /\ UNCHANGED <<cfg, errors, outputfiles, data, p_filename, p_tempfilename,
                   p_managed_tempdir, fs, made, sys_stdout, debug_stdout, pc,
                   frame, runs, obs>>

NextStore == \E i \in 1..Len(Records) : AddMetadataCall(Records[i])

SpecStore == InitStore /\ [][NextStore]_vars

\* the mappings that the model records under other: texts under one sub-key
\* that differ and that repeat, a number and a byte string among texts, and a
\* number before a text
Mappings ==
    << <<(<<S(Note), S(Alice)>>), <<S(Xyz), I(1)>>>>,
       <<(<<S(Note), S(Secret)>>)>>,
       <<(<<S(Note), S(Alice)>>), <<S(Xyz), S(Secret)>>>>,
       <<(<<S(Xyz), I(1)>>), <<S(Note), S(Xyz)>>, <<S(Host), B(Alice)>>>> >>

OtherSwitches ==
    [disabledebug : BOOLEAN, disableoutputfiles : {FALSE}, disabletempcleanup : {FALSE},
     disableautosubfieldparsing : {FALSE}, disablevaluededup : BOOLEAN,
     base64outputfiles : {FALSE}, PY3 : BOOLEAN]

InitOther == cfg \in OtherSwitches /\ Constructed

\* reporter.add_metadata("other", mapping) called on the reporter
OtherCall(pairs) ==
    /\ pc = "idle"
    /\ calls < MaxMappings
    /\ LET r == add_metadata(metadata, Field("other"), D(pairs))
       IN /\ metadata' = r.md
          /\ keyorder' = KeysAfter(keyorder, r.md, KeyTrace(Field("other"), D(pairs)))
          /\ hist' = [op |-> "add_metadata", key |-> Field("other"), value |-> D(pairs),
                      before |-> metadata, exc |-> r.exc]
    /\ calls' = calls + 1
    /\ obs' = [obs EXCEPT !.mappings = Append(@, pairs)]
    /\ UNCHANGED <<cfg, errors, outputfiles, data, p_filename, p_tempfilename,
                   p_managed_tempdir, fs, made, sys_stdout, debug_stdout, pc,
                   frame, runs>>

NextOther == \E i \in 1..Len(Mappings) : OtherCall(Mappings[i])

SpecOther == InitOther /\ [][NextOther]_vars

-----------------------------------------------------------------------------
(* The temp file of the input and the managed temp directory.  The         *)
(* accessors and __cleanup work on [md, fs, made, tempfilename,            *)
(* managed_tempdir]: the store (they log to debug), the disk, and the two  *)
(* handles.                                                                *)

Handles == [md |-> metadata, fs |-> fs, made |-> made,
            tempfilename |-> p_tempfilename, managed_tempdir |-> p_managed_tempdir]

\* path is dir or lies under it
Under(path, dir) == Len(path) >= Len(dir) /\ SubSeq(path, 1, Len(dir)) = dir

\* lines 170-172: the managed temp directory, created when there is none
TempDir(r) ==
    IF r.managed_tempdir # <<>> THEN r
    ELSE LET dir == <<"mwcp-managed_tempdir-", ToString(r.made + 1)>>
         IN [r EXCEPT !.managed_tempdir = dir, !.fs = @ \cup {dir}, !.made = @ + 1]

\* lines 174-176: what managed_tempdir logs after TempDir
TempDirSteps(r) ==
    IF r.managed_tempdir = <<>> /\ cfg.disabletempcleanup
    THEN <<Debug(<<"Using managed temp dir: ">> \o TempDir(r).managed_tempdir)>>
    ELSE <<>>

\* Reporter.managed_tempdir, lines 164-178; the value returned is the
\* managed_tempdir of the result
managed_tempdir(r) == [TempDir(r) EXCEPT !.md = RunSteps(r.md, TempDirSteps(r)).md]

\* a temp file is created on every call for an input given as a buffer
TempFileFresh(r) ==
    IF p_filename # <<>> THEN r
    ELSE LET r1 == TempDir(r)
             tfile == r1.managed_tempdir \o <<"/mwcp-inputfile-", ToString(r1.made + 1)>>
         IN [r1 EXCEPT !.tempfilename = tfile, !.fs = @ \cup {tfile}, !.made = @ + 1]

\* lines 153-156: the temp file of the input, created in the managed temp
\* directory when there is none
TempFile(r) ==
    IF p_filename # <<>> \/ r.tempfilename # <<>> THEN r
    ELSE LET r1 == TempDir(r)
             tfile == r1.managed_tempdir \o <<"/mwcp-inputfile-", ToString(r1.made + 1)>>
         IN [r1 EXCEPT !.tempfilename = tfile, !.fs = @ \cup {tfile}, !.made = @ + 1]

\* lines 158-160: what filename logs after TempFile
TempFileSteps(r) ==
    IF p_filename = <<>> /\ r.tempfilename = <<>>
    THEN TempDirSteps(r)
         \o (IF cfg.disabletempcleanup
             THEN <<Debug(<<"Using tempfile as input file: ">> \o TempFile(r).tempfilename)>>
             ELSE <<>>)
    ELSE <<>>

\* Reporter.filename, lines 143-162; the value returned is FilenameOf the result
filename(r) == [TempFile(r) EXCEPT !.md = RunSteps(r.md, TempFileSteps(r)).md]

FilenameOf(r) == IF p_filename # <<>> THEN p_filename ELSE r.tempfilename

\* lines 715-721: os.remove of the temp file, which fails when it is not there
PurgeTempFile(r) ==
    IF r.tempfilename # <<>>
    THEN [(IF r.tempfilename \in r.fs
           THEN [r EXCEPT !.fs = @ \ {r.tempfilename}]
           ELSE [r EXCEPT !.md = debug(r.md, <<"Failed to purge temp file: ">> \o r.tempfilename).md])
          EXCEPT !.tempfilename = <<>>]
    ELSE r

\* __cleanup forgets the managed temp directory and leaves it on disk
PurgeTempDirKeeps(r) == [r EXCEPT !.managed_tempdir = <<>>]

\* lines 722-728: shutil.rmtree of the managed temp directory
PurgeTempDir(r) ==
    IF r.managed_tempdir # <<>>
    THEN [r EXCEPT !.fs = {path \in @ : ~Under(path, r.managed_tempdir)}, !.managed_tempdir = <<>>]
    ELSE r

\* Reporter.__cleanup, lines 710-731
cleanup(r) ==
    [(IF ~cfg.disabletempcleanup THEN PurgeTempDir(PurgeTempFile(r)) ELSE r)
     EXCEPT !.tempfilename = <<>>, !.managed_tempdir = <<>>]

\* __reset leaves metadata and errors as they are
resetKeepsResults ==
    [p_filename |-> <<>>, p_tempfilename |-> <<>>, p_managed_tempdir |-> <<>>,
     data |-> <<>>, metadata |-> metadata, outputfiles |-> <<>>, errors |-> errors]

\* Reporter.__reset, lines 692-708: the attributes after the reset
reset ==
    [p_filename |-> <<>>, p_tempfilename |-> <<>>, p_managed_tempdir |-> <<>>,
     data |-> <<>>, metadata |-> <<>>, outputfiles |-> <<>>, errors |-> <<>>]

-----------------------------------------------------------------------------
(* run_parser, lines 465-514.  The parsers are code outside the reporter:  *)
(* between the start of a parser and its return or its exception they call *)
(* the reporting API, any call in any order.                               *)

RawData == <<"r", "a", "w">>
PeData == <<"M", "Z", "x">>
SamplePath == <<"sample.bin">>
Line == <<"l", "i", "n", "e">>

\* the parsers registered with mwcp, as (parser_name, source) pairs
Registered ==
    << [source |-> "mwcp", parser_name |-> <<"Foo">>],
       [source |-> "acme", parser_name |-> <<"Bar">>] >>

\* mwcp.iter_parsers(name): the n-th name resolves to the first n registered parsers
NameSpec(n) == <<"name", ToString(n)>>
iter_parsers(n) == SubSeq(Registered, 1, n)

\* the inputs of the runs of the model: a buffer that starts like a PE file
\* and that pefile rejects, and a file that is no PE file
RunInputs ==
    << [fname |-> <<>>, bytes |-> PeData, peok |-> FALSE],
       [fname |-> SamplePath, bytes |-> RawData, peok |-> TRUE] >>

\* hashlib.md5(data).hexdigest()
md5(bytes) == <<"md5:">> \o bytes

\* line 484
IsPE(bytes) == Len(bytes) >= 2 /\ bytes[1] = "M" /\ bytes[2] = "Z"

\* the exceptions that `except (Exception, SystemExit)` catches, line 503
Caught == {"Exception", "SystemExit"}

\* lines 504-509: the entry of self.errors for a parser that raised
ParserError(f, exc) ==
    [msg |-> "Error running parser", source |-> f.parsers[f.idx].source,
     parser_name |-> f.parsers[f.idx].parser_name,
     identifier |-> IF f.filename # <<>> THEN f.filename ELSE md5(f.data),
     exc |-> exc]

\* line 512
NotFoundError(f) ==
    [msg |-> "Could not find parsers with name", source |-> "", parser_name |-> f.name,
     identifier |-> <<>>, exc |-> "none"]

\* the message is not kept
errorDropped(errs, message) == errs

\* Reporter.error, lines 205-209
error(errs, message) == Append(errs, message)

\* line 498
Running(f) == <<"[*] Running parser: ", f.parsers[f.idx].source, ":">> \o f.parsers[f.idx].parser_name

\* lines 687-689: the captured lines go to debug
RECURSIVE DebugLines(_, _)
DebugLines(md, lines) ==
    IF lines = <<>> \/ cfg.disabledebug THEN md
    ELSE DebugLines(IF ~cfg.disabledebug THEN add_metadata(md, S(N("debug")), B(Head(lines))).md ELSE md,
                    Tail(lines))

\* the run that has just returned matched no parser
AfterNone == obs.returned /\ ~frame.found

\* the reporter holds metadata, errors and output files
Held == metadata # <<>> /\ errors # <<>> /\ outputfiles # <<>>

\* lines 473-494: the reset, the input, pefile, and the redirection of
\* stdout.  n names the parsers; fname is <<>> when data is given instead.
RunParser(n, fname, bytes, peok) ==
    /\ pc = "idle"
    /\ runs < MaxRuns
    /\ metadata' = IF IsPE(bytes) /\ ~peok
                   THEN debug(reset.metadata, <<"Error parsing with pefile: ", "PEFormatError">>).md
                   ELSE reset.metadata
    /\ keyorder' = KeysAfter(<<>>, metadata', DebugTrace)
    /\ errors' = reset.errors
    /\ outputfiles' = reset.outputfiles
    /\ p_filename' = IF fname # <<>> THEN fname ELSE reset.p_filename
    /\ p_tempfilename' = reset.p_tempfilename
    /\ p_managed_tempdir' = reset.p_managed_tempdir
    /\ data' = bytes
    /\ sys_stdout' = "debug_stdout"
    /\ debug_stdout' = <<>>
    /\ frame' = [name |-> NameSpec(n), filename |-> fname,
                 data |-> IF fname # <<>> THEN <<>> ELSE bytes,
                 found |-> FALSE, parsers |-> iter_parsers(n), idx |-> 1,
                 orig_stdout |-> sys_stdout]
    /\ pc' = "loop"
    /\ runs' = runs + 1
    /\ calls' = 0
    /\ hist' = NoCall
    /\ obs' = [NoRun EXCEPT !.dirty = Held, !.after_none = AfterNone]
    /\ UNCHANGED <<cfg, fs, made>>

\* lines 473-478: open(self.__filename) raises, and run_parser with it
RunParserNoFile(fname) ==
    /\ pc = "idle"
    /\ runs < MaxRuns
    /\ fname # <<>>
    /\ metadata' = reset.metadata
    /\ keyorder' = <<>>
    /\ errors' = reset.errors
    /\ outputfiles' = reset.outputfiles
    /\ p_filename' = fname
    /\ p_tempfilename' = reset.p_tempfilename
    /\ p_managed_tempdir' = reset.p_managed_tempdir
    /\ data' = reset.data
    /\ runs' = runs + 1
    /\ calls' = 0
    /\ hist' = NoCall
    /\ obs' = [NoRun EXCEPT !.dirty = Held, !.after_none = AfterNone]
    /\ UNCHANGED <<cfg, fs, made, sys_stdout, debug_stdout, pc, frame>>

InLoop == pc = "loop" /\ frame.idx <= Len(frame.parsers)

\* lines 496-502: the next parser is announced and constructed, and its run begins
ParserStart ==
    /\ InLoop
    /\ metadata' = debug(metadata, Running(frame)).md
    /\ keyorder' = KeysAfter(keyorder, metadata', DebugTrace)
    /\ frame' = [frame EXCEPT !.found = TRUE]
    /\ pc' = "parser"
    /\ obs' = [obs EXCEPT !.constructed = Append(@, frame.idx), !.entered = Append(@, frame.idx)]
    /\ UNCHANGED <<cfg, errors, outputfiles, data, p_filename, p_tempfilename,
                   p_managed_tempdir, fs, made, sys_stdout, debug_stdout, runs, calls, hist>>

\* lines 496-509: the constructor of the next parser raises
ParserConstructRaises(exc) ==
    /\ InLoop
    /\ metadata' = debug(metadata, Running(frame)).md
    /\ keyorder' = KeysAfter(keyorder, metadata', DebugTrace)
    /\ errors' = error(errors, ParserError(frame, exc))
    /\ frame' = [frame EXCEPT !.found = TRUE, !.idx = @ + 1]
    /\ obs' = [obs EXCEPT !.constructed = Append(@, frame.idx), !.failed = @ \cup {frame.idx}]
    /\ UNCHANGED <<cfg, outputfiles, data, p_filename, p_tempfilename, p_managed_tempdir,
                   fs, made, sys_stdout, debug_stdout, pc, runs, calls, hist>>

\* parser.run returns and the loop stays at the same parser
ParserReturnsStays ==
    /\ pc = "parser"
    /\ pc' = "loop"
    /\ UNCHANGED <<cfg, metadata, keyorder, errors, outputfiles, data, p_filename, p_tempfilename,
                   p_managed_tempdir, fs, made, sys_stdout, debug_stdout, runs, calls, hist, obs,
                   frame>>

\* line 502: parser.run returns
ParserReturns ==
    /\ pc = "parser"
    /\ frame' = [frame EXCEPT !.idx = @ + 1]
    /\ pc' = "loop"
    /\ UNCHANGED <<cfg, metadata, keyorder, errors, outputfiles, data, p_filename, p_tempfilename,
                   p_managed_tempdir, fs, made, sys_stdout, debug_stdout, runs, calls, hist, obs>>

\* parser.run raises and the loop over the parsers ends with it
ParserRaisesEndsLoop(exc) ==
    /\ pc = "parser"
    /\ errors' = error(errors, ParserError(frame, exc))
    /\ frame' = [frame EXCEPT !.idx = Len(frame.parsers) + 1]
    /\ pc' = "loop"
    /\ obs' = [obs EXCEPT !.failed = @ \cup {frame.idx}]
    /\ UNCHANGED <<cfg, metadata, keyorder, outputfiles, data, p_filename, p_tempfilename,
                   p_managed_tempdir, fs, made, sys_stdout, debug_stdout, runs, calls, hist>>

\* lines 503-509: parser.run raises
ParserRaises(exc) ==
    /\ pc = "parser"
    /\ errors' = error(errors, ParserError(frame, exc))
    /\ frame' = [frame EXCEPT !.idx = @ + 1]
    /\ pc' = "loop"
    /\ obs' = [obs EXCEPT !.failed = @ \cup {frame.idx}]
    /\ UNCHANGED <<cfg, metadata, keyorder, outputfiles, data, p_filename, p_tempfilename,
                   p_managed_tempdir, fs, made, sys_stdout, debug_stdout, runs, calls, hist>>

\* what the parsers of the model report differs from run to run: the host
\* found, the message logged and the file written in run k
HostOfRun(k) == <<"h", ToString(k), ".", "c", "o", "m">>
MessageOfRun(k) == [msg |-> "parser message", source |-> "", parser_name |-> <<>>,
                    identifier |-> <<ToString(k)>>, exc |-> "none"]
OutNameOfRun(k) == <<"o", "u", "t", ToString(k)>>

\* the add_metadata calls that the parsers of the model make
ParserRecords ==
    << Call(Field("address"), S(HostOfRun(runs))),
       Call(Field("credential"), L(<<S(Alice)>>)) >>

\* a call that reports a finding: a text under a listofstrings field, or a
\* non-empty list of texts under a listofstringtuples field
IsFinding(c) ==
    /\ c.key.t = "str"
    /\ \/ NameOf(c.key.v) \in ListOfStrings /\ c.value.t = "str"
       \/ /\ NameOf(c.key.v) \in ListOfStringTuples
          /\ c.value.t = "list"
          /\ Len(c.value.v) > 0
          /\ \A i \in 1..Len(c.value.v) : c.value.v[i].t = "str"

\* the entry that the finding is stored as
FindingOf(c) ==
    [name |-> NameOf(c.key.v),
     value |-> IF c.value.t = "str" THEN c.value.v ELSE [i \in 1..Len(c.value.v) |-> c.value.v[i].v]]

\* the parser calls reporter.add_metadata(key, value)
ParserAddMetadata(c) ==
    /\ pc = "parser"
    /\ calls < MaxCalls
    /\ LET r == add_metadata(metadata, c.key, c.value)
       IN /\ metadata' = r.md
          /\ keyorder' = KeysAfter(keyorder, r.md, KeyTrace(c.key, c.value))
          /\ hist' = [op |-> "add_metadata", key |-> c.key, value |-> c.value,
                      before |-> metadata, exc |-> r.exc]
    /\ calls' = calls + 1
    /\ obs' = IF IsFinding(c)
              THEN [obs EXCEPT !.findings = Append(@, [parser |-> frame.idx, finding |-> FindingOf(c)])]
              ELSE obs
    /\ UNCHANGED <<cfg, errors, outputfiles, data, p_filename, p_tempfilename,
                   p_managed_tempdir, fs, made, sys_stdout, debug_stdout, pc, frame, runs>>

\* the handles, the disk and the store after an accessor or __cleanup
SetHandles(r) ==
    /\ metadata' = r.md
    /\ keyorder' = KeysAfter(keyorder, r.md, DebugTrace)
    /\ fs' = r.fs
    /\ made' = r.made
    /\ p_tempfilename' = r.tempfilename
    /\ p_managed_tempdir' = r.managed_tempdir

\* the parser calls reporter.filename()
ParserFilename ==
    /\ pc = "parser"
    /\ calls < MaxCalls
    /\ \E r \in {filename(Handles)} :
            /\ SetHandles(r)
            /\ obs' = [obs EXCEPT !.created = @ \cup (r.fs \ fs),
                                  !.given = Append(@, [op |-> "filename", path |-> FilenameOf(r)])]
    /\ calls' = calls + 1
    /\ UNCHANGED <<cfg, errors, outputfiles, data, p_filename, sys_stdout, debug_stdout,
                   pc, frame, runs, hist>>

\* the parser calls reporter.managed_tempdir()
ParserManagedTempdir ==
    /\ pc = "parser"
    /\ calls < MaxCalls
    /\ \E r \in {managed_tempdir(Handles)} :
            /\ SetHandles(r)
            /\ obs' = [obs EXCEPT !.created = @ \cup (r.fs \ fs),
                                  !.given = Append(@, [op |-> "managed_tempdir",
                                                       path |-> r.managed_tempdir])]
    /\ calls' = calls + 1
    /\ UNCHANGED <<cfg, errors, outputfiles, data, p_filename, sys_stdout, debug_stdout,
                   pc, frame, runs, hist>>

\* the parser prints a line: sys.stdout is the BytesIO of line 681, which
\* takes the line under Python 2 and raises TypeError under Python 3, so
\* that parser.run ends with that exception
ParserPrints ==
    /\ pc = "parser"
    /\ calls < MaxCalls
    /\ sys_stdout = "debug_stdout"
    /\ calls' = calls + 1
    /\ IF cfg.PY3
       THEN /\ errors' = error(errors, ParserError(frame, "Exception"))
            /\ frame' = [frame EXCEPT !.idx = @ + 1]
            /\ pc' = "loop"
            /\ obs' = [obs EXCEPT !.failed = @ \cup {frame.idx}, !.printed = @ + 1]
            /\ UNCHANGED debug_stdout
       ELSE /\ debug_stdout' = Append(debug_stdout, Line)
            /\ obs' = [obs EXCEPT !.printed = @ + 1]
            /\ UNCHANGED <<errors, frame, pc>>
    /\ UNCHANGED <<cfg, metadata, keyorder, outputfiles, data, p_filename, p_tempfilename,
                   p_managed_tempdir, fs, made, sys_stdout, runs, hist>>

\* the parser calls reporter.error(message)
ParserCallsError ==
    /\ pc = "parser"
    /\ calls < MaxCalls
    /\ errors' = error(errors, MessageOfRun(runs))
    /\ calls' = calls + 1
    /\ UNCHANGED <<cfg, metadata, keyorder, outputfiles, data, p_filename, p_tempfilename,
                   p_managed_tempdir, fs, made, sys_stdout, debug_stdout, pc, frame,
                   runs, hist, obs>>

\* the content of the file that the parsers report, and the directory of line 113
OutData == <<"d">>
OutDir == <<"outputdir/">>

\* the entry has its path whether or not the file was written
OutputEntryWithPath(bytes, fname, description, written) ==
    [data |-> bytes, description |-> description, md5 |-> md5(bytes),
     path |-> OutDir \o basename(fname)]

\* lines 532-535 and 556-560: the entry of self.outputfiles
OutputEntry(bytes, fname, description, written) ==
    [data |-> bytes, description |-> description, md5 |-> md5(bytes),
     path |-> IF ~cfg.disableoutputfiles /\ written THEN OutDir \o basename(fname) ELSE <<>>]

\* base64.b64encode(data), line 539
b64encode(bytes) == <<"b64:">> \o bytes

\* lines 537-541: the tuple recorded under outputfile
OutputTuple(bytes, fname, description) ==
    <<S(basename(fname)), S(description), S(md5(bytes))>>
    \o (IF cfg.base64outputfiles THEN <<B(b64encode(bytes))>> ELSE <<>>)

\* Reporter.output_file, lines 522-563; os.path.basename is taken for
\* ntpath's on every platform; written tells whether open and write succeed
output_file(bytes, fname, description, written) ==
    \E recorded \in {add_metadata(metadata, Field("outputfile"),
                                  L(OutputTuple(bytes, fname, description))).md} :
        /\ metadata' =
              (IF cfg.disableoutputfiles THEN recorded
               ELSE IF written
                    THEN debug(recorded, <<"outputfile: ">> \o OutDir \o basename(fname)).md
                    ELSE debug(recorded, <<"Failed to write output file: ">> \o OutDir \o basename(fname)
                                         \o <<", ", "str(e)">>).md)
        /\ keyorder' = KeysAfter(keyorder, metadata', <<"outputfile">> \o DebugTrace)
        /\ outputfiles' = Put(outputfiles, fname, OutputEntry(bytes, fname, description, written))
        /\ fs' = (IF ~cfg.disableoutputfiles /\ written
                  THEN fs \cup {OutDir \o basename(fname)} ELSE fs)

\* the parser calls reporter.output_file(data, filename)
ParserOutputFile(bytes, fname, description, written) ==
    /\ pc = "parser"
    /\ calls < MaxCalls
    /\ output_file(bytes, fname, description, written)
    /\ calls' = calls + 1
    /\ obs' = [obs EXCEPT !.outputs = Append(@, [data |-> bytes, filename |-> fname,
                                                 description |-> description,
                                                 written |-> written])]
    /\ UNCHANGED <<cfg, errors, data, p_filename, p_tempfilename, p_managed_tempdir,
                   made, sys_stdout, debug_stdout, pc, frame, runs, hist>>

\* lines 511-514 and 686-690: the loop is over; the captured lines go to
\* debug, stdout is restored, and __cleanup runs
RunFinish ==
    /\ pc = "loop"
    /\ frame.idx > Len(frame.parsers)
    /\ errors' = IF ~frame.found THEN error(errors, NotFoundError(frame)) ELSE errors
    /\ SetHandles(cleanup([Handles EXCEPT !.md = DebugLines(metadata, debug_stdout)]))
    /\ sys_stdout' = frame.orig_stdout
    /\ pc' = "idle"
    /\ obs' = [obs EXCEPT !.returned = TRUE]
    /\ UNCHANGED <<cfg, outputfiles, data, p_filename, debug_stdout, frame, runs, calls, hist>>

RunSwitches ==
    [disabledebug : {FALSE}, disableoutputfiles : {FALSE}, disabletempcleanup : {FALSE},
     disableautosubfieldparsing : {FALSE}, disablevaluededup : {FALSE},
     base64outputfiles : {FALSE}, PY3 : BOOLEAN]

TempSwitches ==
    [disabledebug : BOOLEAN, disableoutputfiles : {FALSE}, disabletempcleanup : BOOLEAN,
     disableautosubfieldparsing : {FALSE}, disablevaluededup : {FALSE},
     base64outputfiles : {FALSE}, PY3 : {TRUE}]

\* run_parser from its call to its return, with parsers that return or raise
Dispatch ==
    \/ \E n \in 0..Len(Registered), i \in 1..Len(RunInputs) :
            RunParser(n, RunInputs[i].fname, RunInputs[i].bytes, RunInputs[i].peok)
    \/ RunParserNoFile(SamplePath)
    \/ ParserStart
    \/ \E exc \in Caught : ParserConstructRaises(exc)
    \/ ParserReturns
    \/ \E exc \in Caught : ParserRaises(exc)
    \/ RunFinish

\* runs whose parsers report metadata, print and log errors
Init == cfg \in RunSwitches /\ Constructed

Next ==
    \/ Dispatch
    \/ \E i \in 1..Len(ParserRecords) : ParserAddMetadata(ParserRecords[i])
    \/ ParserPrints
    \/ ParserCallsError
    \/ \E written \in BOOLEAN : ParserOutputFile(OutData, OutNameOfRun(runs), <<>>, written)

Spec == Init /\ [][Next]_vars

\* runs whose parsers register output files that are written when writing is
\* on: two contents, a name with and without a directory, and two descriptions
OutData2 == <<"e">>
OutputCalls ==
    << [data |-> OutData, filename |-> OutNameOfRun(1), description |-> <<>>],
       [data |-> OutData2, filename |-> OutNameOfRun(1), description |-> <<>>],
       [data |-> OutData, filename |-> <<"s", "/">> \o OutNameOfRun(1), description |-> <<>>],
       [data |-> OutData, filename |-> OutNameOfRun(1), description |-> Note] >>

OutSwitches ==
    [disabledebug : {FALSE}, disableoutputfiles : BOOLEAN, disabletempcleanup : {FALSE},
     disableautosubfieldparsing : {FALSE}, disablevaluededup : BOOLEAN,
     base64outputfiles : BOOLEAN, PY3 : {TRUE}]

InitOut == cfg \in OutSwitches /\ Constructed

NextOut ==
    \/ Dispatch
    \/ \E i \in 1..Len(OutputCalls) :
            ParserOutputFile(OutputCalls[i].data, OutputCalls[i].filename,
                             OutputCalls[i].description, TRUE)

SpecOut == InitOut /\ [][NextOut]_vars

\* runs whose parsers register output files whose writing succeeds or fails,
\* on reporters that write output files or not and capture debug or not
WriteSwitches ==
    [disabledebug : BOOLEAN, disableoutputfiles : BOOLEAN, disabletempcleanup : {FALSE},
     disableautosubfieldparsing : {FALSE}, disablevaluededup : {FALSE},
     base64outputfiles : {FALSE}, PY3 : {TRUE}]

InitWrite == cfg \in WriteSwitches /\ Constructed

NextWrite ==
    \/ Dispatch
    \/ \E i \in 1..2, written \in BOOLEAN :
            ParserOutputFile(OutputCalls[i].data, OutNameOfRun(i), OutputCalls[i].description,
                             written)

SpecWrite == InitWrite /\ [][NextWrite]_vars

\* runs whose parsers ask for the input file and the managed temp directory
InitTemp == cfg \in TempSwitches /\ Constructed

NextTemp ==
    \/ Dispatch
    \/ ParserFilename
    \/ ParserManagedTempdir

SpecTemp == InitTemp /\ [][NextTemp]_vars

\* reporter.filename() called on the reporter while no run is going on
IdleFilename ==
    /\ pc = "idle"
    /\ calls < MaxCalls
    /\ \E r \in {filename(Handles)} : SetHandles(r)
    /\ calls' = calls + 1
    /\ UNCHANGED <<cfg, errors, outputfiles, data, p_filename, sys_stdout, debug_stdout,
                   pc, frame, runs, hist, obs>>

\* reporter.managed_tempdir() called on the reporter while no run is going on
IdleManagedTempdir ==
    /\ pc = "idle"
    /\ calls < MaxCalls
    /\ \E r \in {managed_tempdir(Handles)} : SetHandles(r)
    /\ calls' = calls + 1
    /\ UNCHANGED <<cfg, errors, outputfiles, data, p_filename, sys_stdout, debug_stdout,
                   pc, frame, runs, hist, obs>>

\* runs, and calls of the two accessors by the parsers and between the runs
NextIdle ==
    \/ NextTemp
    \/ IdleFilename
    \/ IdleManagedTempdir

SpecIdle == InitTemp /\ [][NextIdle]_vars

-----------------------------------------------------------------------------
(* Failure isolation, cleanup and reset of run_parser. *)

Returned == pc = "idle" /\ obs.returned

\* C1: when run_parser returns, every matched parser has been constructed, in
\* the order of the match and whatever the parsers before it did; each
\* finding recorded by a parser that did not raise is in the store; and
\* errors holds exactly one "Error running parser" entry for each parser
\* that raised, naming it, and none for a parser that did not raise.
C1_FailureIsolation ==
    Returned =>
        /\ obs.constructed = [i \in 1..Len(frame.parsers) |-> i]
        /\ \A k \in 1..Len(obs.findings) :
                obs.findings[k].parser \notin obs.failed
                    => Contains(Get(metadata, obs.findings[k].finding.name),
                                obs.findings[k].finding.value)
        /\ \A i \in 1..Len(frame.parsers) :
                Cardinality({k \in 1..Len(errors) :
                                /\ errors[k].msg = "Error running parser"
                                /\ errors[k].source = frame.parsers[i].source
                                /\ errors[k].parser_name = frame.parsers[i].parser_name})
                    = IF i \in obs.failed THEN 1 ELSE 0
        /\ Cardinality({k \in 1..Len(errors) : errors[k].msg = "Error running parser"})
                = Cardinality(obs.failed)

\* the first of two parsers raised and the second recorded a finding
C1_Witness ==
    /\ Returned
    /\ Len(frame.parsers) = 2
    /\ obs.failed = {1}
    /\ \E k \in 1..Len(obs.findings) : obs.findings[k].parser = 2

\* C2: when run_parser returns, with disabletempcleanup off none of the temp
\* paths created during the run by filename() or managed_tempdir() exists,
\* whichever parsers returned or raised and also when none matched; with
\* disabletempcleanup on all of them exist.
C2_TempCleanup ==
    Returned =>
        IF cfg.disabletempcleanup
        THEN obs.created \subseteq fs
        ELSE obs.created \cap fs = {}

\* a run that created the temp directory and the temp file, in which one
\* parser raised and one returned, has returned with cleanup on
C2_Witness ==
    /\ Returned
    /\ ~cfg.disabletempcleanup
    /\ Cardinality(obs.created) = 2
    /\ Len(frame.parsers) = 2
    /\ Cardinality(obs.failed) = 1

\* what run k records, logs and registers is held by the reporter
HoldsOfRun(k) ==
    \/ Contains(Get(metadata, "address"), HostOfRun(k))
    \/ Contains(Get(metadata, "outputfile"), <<OutNameOfRun(k), <<>>, md5(OutData)>>)
    \/ Contains(errors, MessageOfRun(k))
    \/ OutNameOfRun(k) \in DOMAIN outputfiles

\* C3: a run starts from fresh state and nothing of an earlier run is seen
\* in it: when the loop over the parsers begins, errors and outputfiles are
\* empty and metadata holds at most the pefile message of this run, and at
\* no time during or after a run does metadata, errors or outputfiles hold
\* what was recorded, logged or registered during an earlier run.
C3_FreshRunState ==
    /\ (pc = "loop" /\ frame.idx = 1 /\ ~frame.found) =>
            /\ errors = <<>>
            /\ outputfiles = <<>>
            /\ metadata \in {<<>>, debug(<<>>, <<"Error parsing with pefile: ", "PEFormatError">>).md}
    /\ \A k \in 1..MaxRuns : k < runs => ~HoldsOfRun(k)

\* a second run has returned on a reporter that held metadata, errors and
\* output files of the first
C3_Witness ==
    /\ Returned
    /\ runs = 2
    /\ obs.dirty

-----------------------------------------------------------------------------
(* add_metadata: failures, unknown keys and dedup. *)

\* add_metadata has been called; hist holds the call and the store before it
Made == hist.op = "add_metadata"

\* the entries that the last call added to the debug field
DebugGained == Len(Get(metadata, "debug")) - Len(Get(hist.before, "debug"))

\* the last call left every field but debug as it was
SameExceptDebug ==
    \A name \in (DOMAIN metadata \cup DOMAIN hist.before) \ {"debug"} :
        /\ Has(metadata, name)
        /\ Has(hist.before, name)
        /\ metadata[name] = hist.before[name]

\* the key of the call names no field
KeyAbsent(c) ==
    \/ ~convert_to_unicode(c.key).ok
    \/ NameOf(convert_to_unicode(c.key).v) \notin FieldNames

\* the value of the call has not the shape of the field: no text for a
\* listofstrings field, no list for a listofstringtuples field, no mapping
\* for the dictofstrings field
WrongShape(c) ==
    /\ ~KeyAbsent(c)
    /\ LET type == fieldtype(convert_to_unicode(c.key).v)
       IN \/ type = "listofstrings" /\ c.value.t \notin {"str", "bytes"}
          \/ type = "listofstringtuples" /\ c.value.t # "list"
          \/ type = "dictofstrings" /\ c.value.t # "dict"

\* the value is a list for a listofstringtuples field with an item that is no text
UnconvertibleItem(c) ==
    /\ ~KeyAbsent(c)
    /\ fieldtype(convert_to_unicode(c.key).v) = "listofstringtuples"
    /\ c.value.t = "list"
    /\ \E i \in 1..Len(c.value.v) : c.value.v[i].t \notin {"str", "bytes"}

\* the value is a list of texts with fewer items than the field's tuples have
TooShort(c) ==
    /\ ~KeyAbsent(c)
    /\ c.value.t = "list"
    /\ ~UnconvertibleItem(c)
    /\ LET name == NameOf(convert_to_unicode(c.key).v)
       IN \/ name \in {"credential", "port", "listenport", "registrypathdata"} /\ Len(c.value.v) < 2
          \/ name \in {"socketaddress", "c2_socketaddress"} /\ Len(c.value.v) < 3
          \/ name = "service" /\ Len(c.value.v) < 5

\* C4 as claimed, for a reporter that captures debug and parses subfields:
\* every call of add_metadata returns normally, a call with an unknown key,
\* a value of the wrong shape, an item that cannot be converted or a tuple
\* that is too short adds a warning to debug, and a later call with a good
\* value stores it.
C4_RecordNeverFails ==
    (Made /\ ~cfg.disabledebug /\ ~cfg.disableautosubfieldparsing) =>
        /\ hist.exc = "none"
        /\ (KeyAbsent(hist) \/ WrongShape(hist) \/ UnconvertibleItem(hist) \/ TooShort(hist))
                => DebugGained >= 1
        /\ (hist.key = Field("address") /\ hist.value = S(Host))
                => Contains(Get(metadata, "address"), Host)

\* C5 as claimed: a call with a key that names no field leaves every field
\* but debug as it was and adds exactly one entry to debug.
C5_UnknownKeyOneDebugEntry ==
    (Made /\ KeyAbsent(hist)) => (SameExceptDebug /\ DebugGained = 1)

\* C5: a call with a key that names no field leaves every field but debug
\* as it was, and adds exactly one entry to debug when the reporter captures
\* debug and none when disabledebug is set.
C5_UnknownKey ==
    (Made /\ KeyAbsent(hist)) =>
        /\ SameExceptDebug
        /\ DebugGained = IF cfg.disabledebug THEN 0 ELSE 1

\* an unknown key was recorded on a store that held an address, and debug
\* gained its entry
C5_Witness ==
    /\ Made
    /\ KeyAbsent(hist)
    /\ Has(hist.before, "address")
    /\ ~cfg.disabledebug
    /\ DebugGained = 1

\* seq holds no value twice
NoDuplicates(seq) == \A i, j \in 1..Len(seq) : i # j => seq[i] # seq[j]

\* with dedup on, no listofstrings field but debug holds a string twice and
\* no listofstringtuples field holds a tuple twice
Deduplicated ==
    ~cfg.disablevaluededup =>
        \A name \in (ListOfStrings \ {"debug"}) \cup ListOfStringTuples :
            NoDuplicates(Get(metadata, name))

\* the key of the last call is debug
ToDebug == Made /\ hist.key.t \in {"str", "bytes"} /\ hist.key.v = N("debug")

\* C6 as claimed: with dedup on no listofstrings field but debug holds a
\* string twice and no listofstringtuples field holds a tuple twice, and
\* every call of add_metadata with the key debug adds one entry to debug.
C6_DedupAndDebugEveryCall ==
    /\ Deduplicated
    /\ (~cfg.disablevaluededup /\ ToDebug) => DebugGained = 1

\* C6: with dedup on no listofstrings field but debug holds a string twice
\* and no listofstringtuples field holds a tuple twice; a call of
\* add_metadata with the key debug and a text adds that text to debug,
\* also when debug holds it already; a call with the key debug and a value
\* that is no text adds the warning of the failure instead, and nothing when
\* disabledebug is set.
C6_Dedup ==
    /\ Deduplicated
    /\ (~cfg.disablevaluededup /\ ToDebug) =>
            IF hist.value.t \in {"str", "bytes"}
            THEN Get(metadata, "debug") = Append(Get(hist.before, "debug"), hist.value.v)
            ELSE DebugGained = IF cfg.disabledebug THEN 0 ELSE 1

\* with dedup on, the same c2_socketaddress was recorded twice: the tuple
\* and the address derived from it are held once, and debug holds the
\* warning of each call
C6_Witness ==
    /\ ~cfg.disablevaluededup
    /\ Made
    /\ hist.key = Field("c2_socketaddress")
    /\ Get(hist.before, "c2_socketaddress") = <<<<Host>>>>
    /\ Get(metadata, "c2_socketaddress") = <<<<Host>>>>
    /\ Get(metadata, "address") = <<Host>>
    /\ Len(Get(metadata, "debug")) = 2
    /\ Get(metadata, "debug")[1] = Get(metadata, "debug")[2]

\* the last call recorded value under key on an empty store
RecordedOnEmpty(key, value) ==
    Made /\ hist.key = Field(key) /\ hist.value = value /\ hist.before = <<>>

\* C7 as claimed: with subfield parsing on, recording c2_url
\* "http://[fe80::1]/y" on an empty store yields c2_address and address
\* "fe80::1", url the value itself, urlpath "/y", and no socketaddress and
\* no c2_socketaddress.
C7_BracketedHostNoPort ==
    (RecordedOnEmpty("c2_url", S(UrlV6)) /\ ~cfg.disableautosubfieldparsing) =>
        /\ Get(metadata, "c2_url") = <<UrlV6>>
        /\ Get(metadata, "c2_address") = <<HostV6>>
        /\ Get(metadata, "url") = <<UrlV6>>
        /\ Get(metadata, "address") = <<HostV6>>
        /\ Get(metadata, "urlpath") = <<<<"/", "y">>>>
        /\ Get(metadata, "socketaddress") = <<>>
        /\ Get(metadata, "c2_socketaddress") = <<>>

\* C8: with subfield parsing on, recording a url scheme://host:port/path
\* with a plain host on an empty store yields socketaddress (host, port,
\* "tcp"), address host and urlpath /path: "http://bad.com:80/x" yields
\* ("bad.com", "80", "tcp"), "bad.com" and "/x".
C8_UrlHostPortPath ==
    \A i \in 1..Len(PlainUrls) :
        (RecordedOnEmpty("url", S(PlainUrls[i].url)) /\ ~cfg.disableautosubfieldparsing) =>
            /\ Get(metadata, "url") = <<PlainUrls[i].url>>
            /\ Get(metadata, "socketaddress") = <<<<PlainUrls[i].host, PlainUrls[i].port, Tcp>>>>
            /\ Get(metadata, "address") = <<PlainUrls[i].host>>
            /\ Get(metadata, "urlpath") = <<PlainUrls[i].path>>

\* "http://bad.com:80/x" was recorded with subfield parsing on
C8_Witness ==
    /\ RecordedOnEmpty("url", S(UrlPort))
    /\ ~cfg.disableautosubfieldparsing
    /\ Get(metadata, "socketaddress") = <<<<Host, Port80, Tcp>>>>

\* C9 as claimed: after recording a url that carries host:port on an empty
\* store the port field holds no entry.
C9_UrlDerivesNoPort ==
    \A i \in 1..Len(PlainUrls) :
        RecordedOnEmpty("url", S(PlainUrls[i].url)) => Get(metadata, "port") = <<>>

\* C9: after recording a url that carries host:port on an empty store, with
\* subfield parsing on the port field holds exactly the entry (port, "tcp"),
\* derived from the socketaddress that the url yields ("http://bad.com:80/x"
\* yields ("80", "tcp")); with subfield parsing off it holds no entry.
C9_UrlPort ==
    \A i \in 1..Len(PlainUrls) :
        RecordedOnEmpty("url", S(PlainUrls[i].url)) =>
            Get(metadata, "port") = IF cfg.disableautosubfieldparsing THEN <<>>
                                    ELSE <<<<PlainUrls[i].port, Tcp>>>>

\* "http://bad.com:80/x" was recorded and the port field holds ("80", "tcp")
C9_Witness ==
    /\ RecordedOnEmpty("url", S(UrlPort))
    /\ Get(metadata, "port") = <<<<Port80, Tcp>>>>

\* the last call recorded a list of n texts under credential
Credential(n) ==
    /\ Made
    /\ hist.key = Field("credential")
    /\ hist.value.t = "list"
    /\ Len(hist.value.v) = n
    /\ \A i \in 1..n : hist.value.v[i].t = "str"

\* the warning about the number of values of a credential
CredentialWarning(n) == <<"Expected two values in type credential, received ", ToString(n)>>

\* C10 as claimed: recording a credential of one or two texts puts the first
\* in username and, when there are two, the second in password; a credential
\* of one text adds nothing to password and exactly one warning about the
\* number of values to debug; a credential of two adds no warning.
C10_CredentialAsClaimed ==
    /\ Credential(2) =>
            /\ Contains(Get(metadata, "username"), hist.value.v[1].v)
            /\ Contains(Get(metadata, "password"), hist.value.v[2].v)
            /\ DebugGained = 0
    /\ Credential(1) =>
            /\ Contains(Get(metadata, "username"), hist.value.v[1].v)
            /\ Get(metadata, "password") = Get(hist.before, "password")
            /\ Get(metadata, "debug") = Append(Get(hist.before, "debug"), CredentialWarning(1))

\* C10: with subfield parsing on, recording a credential of one or two texts
\* puts the first in username and, when there are two, the second in
\* password; a credential of one text adds nothing to password and adds
\* exactly one warning about the number of values to debug, or none when
\* disabledebug is set; a credential of two adds no warning.  With subfield
\* parsing off neither username, password nor debug changes.
C10_Credential ==
    /\ (Credential(2) /\ ~cfg.disableautosubfieldparsing) =>
            /\ Contains(Get(metadata, "username"), hist.value.v[1].v)
            /\ Contains(Get(metadata, "password"), hist.value.v[2].v)
            /\ DebugGained = 0
    /\ (Credential(1) /\ ~cfg.disableautosubfieldparsing) =>
            /\ Contains(Get(metadata, "username"), hist.value.v[1].v)
            /\ Get(metadata, "password") = Get(hist.before, "password")
            /\ Get(metadata, "debug") =
                    IF cfg.disabledebug THEN Get(hist.before, "debug")
                    ELSE Append(Get(hist.before, "debug"), CredentialWarning(1))
    /\ ((Credential(1) \/ Credential(2)) /\ cfg.disableautosubfieldparsing) =>
            /\ Get(metadata, "username") = Get(hist.before, "username")
            /\ Get(metadata, "password") = Get(hist.before, "password")
            /\ DebugGained = 0

\* a credential of one text was recorded after a credential of two, and
\* debug holds the warning
C10_Witness ==
    /\ Credential(1)
    /\ ~cfg.disableautosubfieldparsing
    /\ ~cfg.disabledebug
    /\ Get(hist.before, "credential") = <<<<Alice, Secret>>>>
    /\ Get(metadata, "debug") = <<CredentialWarning(1)>>

-----------------------------------------------------------------------------
\* the five fields that the elements of a service tuple are recorded under
ServiceFields ==
    <<"servicename", "servicedisplayname", "servicedescription", "serviceimage", "servicedll">>

\* the last call recorded a tuple of texts under service
ServiceCall == Made /\ hist.key = Field("service") /\ hist.value.t = "list"

\* the texts of the tuple that the last call passed
Passed == [i \in 1..Len(hist.value.v) |-> hist.value.v[i].v]

\* text holds ".exe", and the shortest prefix of text that ends with it
HasExe(text) == \E k \in 4..Len(text) : SubSeq(text, k - 3, k) = Exe
ThroughExe(text) ==
    SubSeq(text, 1, CHOOSE k \in 4..Len(text) :
                        /\ SubSeq(text, k - 3, k) = Exe
                        /\ \A j \in 4..(k - 1) : SubSeq(text, j - 3, j) # Exe)

\* C11: with subfield parsing on, recording a service tuple records each
\* element at positions 0-4 that is present and not empty under servicename,
\* servicedisplayname, servicedescription, serviceimage and servicedll, an
\* empty or missing element derives nothing, and a serviceimage that holds
\* ".exe" derives filepath = its prefix through the first ".exe"; the tuple
\* ("svcname", "", "", "C:\x.exe evil", "") on an empty store yields
\* servicename "svcname" and filepath "C:\x.exe".
C11_ServiceChain ==
    /\ (ServiceCall /\ ~cfg.disableautosubfieldparsing) =>
          /\ \A i \in 1..5 :
                IF i <= Len(Passed) /\ Passed[i] # <<>>
                THEN Contains(Get(metadata, ServiceFields[i]), Passed[i])
                ELSE Get(metadata, ServiceFields[i]) = Get(hist.before, ServiceFields[i])
          /\ (Len(Passed) >= 4 /\ HasExe(Passed[4])) =>
                Contains(Get(metadata, "filepath"), ThroughExe(Passed[4]))
    /\ (RecordedOnEmpty("service", L(<<S(SvcName), S(<<>>), S(<<>>), S(Image), S(<<>>)>>))
        /\ ~cfg.disableautosubfieldparsing) =>
          /\ Get(metadata, "servicename") = <<SvcName>>
          /\ Get(metadata, "serviceimage") = <<Image>>
          /\ Get(metadata, "filepath") = <<ImagePath>>
          /\ Get(metadata, "servicedisplayname") = <<>>
          /\ Get(metadata, "servicedescription") = <<>>
          /\ Get(metadata, "servicedll") = <<>>

\* the service tuple of the example was recorded on an empty store
C11_Witness ==
    /\ RecordedOnEmpty("service", L(<<S(SvcName), S(<<>>), S(<<>>), S(Image), S(<<>>)>>))
    /\ ~cfg.disableautosubfieldparsing
    /\ Get(metadata, "filepath") = <<ImagePath>>

-----------------------------------------------------------------------------
\* run_parser has returned from a run whose name matched no parser
NoneMatched == Returned /\ frame.parsers = <<>>

\* the temp handles are cleared and stdout is the one of before the run
CleanedUp == p_tempfilename = <<>> /\ p_managed_tempdir = <<>> /\ sys_stdout = "orig"

\* the run that has returned went as any run does: every matched parser was
\* constructed in order, the findings of those that did not raise are held,
\* and the report of a missing parser is there only when none matched
RanNormally ==
    /\ obs.constructed = [i \in 1..Len(frame.parsers) |-> i]
    /\ \A k \in 1..Len(obs.findings) :
            obs.findings[k].parser \notin obs.failed
                => Contains(Get(metadata, obs.findings[k].finding.name), obs.findings[k].finding.value)
    /\ \A k \in 1..Len(errors) :
            errors[k].msg = "Could not find parsers with name" => frame.parsers = <<>>
    /\ CleanedUp

\* C12 as claimed: a run whose name matches no parser ends with errors not
\* empty and with an empty metadata store, its cleanup done, and the run
\* after it goes normally.
C12_NoParserEmptyStore ==
    /\ NoneMatched => (errors # <<>> /\ metadata = <<>> /\ outputfiles = <<>> /\ CleanedUp)
    /\ (Returned /\ obs.after_none) => RanNormally

\* C12: a run whose name matches no parser ends with exactly the report of
\* the missing parser in errors, with no output file, with its cleanup done
\* and with a metadata store that is empty, or that holds the pefile warning
\* in debug and nothing else when the input starts with "MZ"; and the run
\* after it goes normally.
C12_NoParser ==
    /\ NoneMatched =>
          /\ errors = <<NotFoundError(frame)>>
          /\ outputfiles = <<>>
          /\ CleanedUp
          /\ \/ metadata = <<>>
             \/ /\ IsPE(data)
                /\ metadata = debug(<<>>, <<"Error parsing with pefile: ", "PEFormatError">>).md
    /\ (Returned /\ obs.after_none) => RanNormally

\* after a run that matched no parser, a run of two parsers has returned with
\* a finding in the store
C12_Witness ==
    /\ Returned
    /\ obs.after_none
    /\ Len(frame.parsers) = 2
    /\ obs.failed = {}
    /\ obs.findings # <<>>
    /\ Contains(Get(metadata, "address"), HostOfRun(2))

-----------------------------------------------------------------------------
(* Output files: the registry and the outputfile field. *)

\* the texts that an output_file call stands for in the outputfile field
TupleOfCall(c) ==
    <<basename(c.filename), c.description, md5(c.data)>>
    \o (IF cfg.base64outputfiles THEN <<b64encode(c.data)>> ELSE <<>>)

\* outputfiles holds, for each name registered in this run, the content,
\* description and digest of the last call that named it, and nothing else
LastWriteWins ==
    /\ DOMAIN outputfiles = {obs.outputs[i].filename : i \in 1..Len(obs.outputs)}
    /\ \A i \in 1..Len(obs.outputs) :
            (\A j \in (i + 1)..Len(obs.outputs) : obs.outputs[j].filename # obs.outputs[i].filename)
                => /\ outputfiles[obs.outputs[i].filename].data = obs.outputs[i].data
                   /\ outputfiles[obs.outputs[i].filename].description = obs.outputs[i].description
                   /\ outputfiles[obs.outputs[i].filename].md5 = md5(obs.outputs[i].data)

\* C13 as claimed: outputfiles holds for each name the last artifact
\* registered under it, and the outputfile field holds one entry for each
\* output_file call of the run, repeated calls included.
C13_OneEntryPerCall ==
    /\ LastWriteWins
    /\ Len(Get(metadata, "outputfile")) = Len(obs.outputs)

\* C13: outputfiles holds for each name the last artifact registered under
\* it; with dedup disabled the outputfile field holds one entry for each
\* output_file call of the run, in order; with dedup enabled it holds each
\* distinct tuple (basename, description, digest) once, so as many entries as
\* calls only when no two calls agree on all three.
C13_OutputRegistry ==
    /\ LastWriteWins
    /\ IF cfg.disablevaluededup
       THEN Get(metadata, "outputfile") = [i \in 1..Len(obs.outputs) |-> TupleOfCall(obs.outputs[i])]
       ELSE /\ NoDuplicates(Get(metadata, "outputfile"))
            /\ {Get(metadata, "outputfile")[k] : k \in 1..Len(Get(metadata, "outputfile"))}
                    = {TupleOfCall(obs.outputs[i]) : i \in 1..Len(obs.outputs)}

\* one name was registered twice with two contents: outputfiles holds the
\* second and the outputfile field holds both
C13_Witness ==
    /\ Len(obs.outputs) = 2
    /\ obs.outputs[1].filename = obs.outputs[2].filename
    /\ obs.outputs[1].data = OutData
    /\ obs.outputs[2].data = OutData2
    /\ outputfiles[OutNameOfRun(1)].data = OutData2
    /\ Len(Get(metadata, "outputfile")) = 2

-----------------------------------------------------------------------------
(* The plain-text report. *)

INFO_FIELD_ORDER == <<"inputfilename", "md5", "sha1", "sha256", "compiletime">>
STANDARD_FIELD_ORDER ==
    <<"c2_url", "c2_socketaddress", "c2_address", "url", "urlpath",
      "socketaddress", "address", "port", "listenport",
      "credential", "username", "password",
      "missionid", "useragent", "interval", "version", "mutex",
      "service", "servicename", "servicedisplayname", "servicedescription",
      "serviceimage", "servicedll", "injectionprocess",
      "filepath", "directory", "filename",
      "registrykeyvalue", "registrykey", "registryvalue", "key">>

\* ' '.join(values) and its like: the texts with sep between them
RECURSIVE Join(_, _)
Join(values, sep) ==
    IF values = <<>> THEN <<>>
    ELSE IF Len(values) = 1 THEN values[1]
    ELSE values[1] \o sep \o Join(Tail(values), sep)

\* Reporter.format_list, lines 577-596; the outputfile branch gives three
\* values to a format of two and raises TypeError
format_list(values, key) ==
    CASE key = N("credential") /\ Len(values) = 2 -> values[1] \o <<":">> \o values[2]
      [] key = N("outputfile") /\ Len(values) >= 3 -> <<"TypeError">>
      [] key \in {N("port"), N("listenport")} /\ Len(values) = 2 -> values[1] \o <<"/">> \o values[2]
      [] key = N("registrykeyvalue") /\ Len(values) = 2 -> values[1] \o <<"=">> \o values[2]
      [] key \in {N("socketaddress"), N("c2_socketaddress")} /\ Len(values) = 3 ->
            values[1] \o <<":">> \o values[2] \o <<"/">> \o values[3]
      [] key = N("service") /\ Len(values) = 5 -> Join(values, <<",", " ">>)
      [] OTHER -> Join(values, <<" ">>)

\* a line of the report: a section header, or a key (empty on the lines of
\* a field after its first) and a value
Header(title) == [kind |-> "section", key |-> <<>>, text |-> <<title>>]
KeyValue(key, text) == [kind |-> "field", key |-> key, text |-> text]
Plain(text) == [kind |-> "item", key |-> <<>>, text |-> text]

\* Reporter.get_printable_key_value, lines 609-624, for a value that is a
\* text (astext), a list of texts (oftexts) or a list of lists of texts
get_printable_key_value(key, value, astext, oftexts) ==
    IF astext THEN <<KeyValue(key, value)>>
    ELSE [i \in 1..Len(value) |->
            KeyValue(IF i = 1 THEN key ELSE <<>>,
                     IF oftexts THEN value[i] ELSE format_list(value[i], key))]

\* the lines of a field of the store
FieldLines(md, name) ==
    get_printable_key_value(N(name), md[name], FALSE, name \in ListOfStrings)

RECURSIVE Lines(_, _)
Lines(md, names) ==
    IF names = <<>> THEN <<>> ELSE FieldLines(md, Head(names)) \o Lines(md, Tail(names))

\* lines 643-645: the fields of the standard section, taken in the order of insertion
StandardFieldsAsInserted(md, order) ==
    LET Standard(k) == \E i \in 1..Len(STANDARD_FIELD_ORDER) : STANDARD_FIELD_ORDER[i] = k
    IN SelectSeq(order, Standard)

\* lines 643-645: the fields of the standard section
StandardFields(md, order) ==
    LET Present(k) == k \in DOMAIN md
    IN SelectSeq(STANDARD_FIELD_ORDER, Present)

\* lines 649-651: the fields that the standard order does not name, as
\* iterating the store yields them
FallbackFields(md, order) ==
    LET Fallback(k) == /\ \A i \in 1..Len(STANDARD_FIELD_ORDER) : STANDARD_FIELD_ORDER[i] # k
                       /\ k \notin {"other", "debug", "outputfile"}
                       /\ k \in FieldNames
    IN SelectSeq(order, Fallback)

\* the order of str in sorted(), for the texts of the model: by code point
\* of the letters, a prefix before the longer text
Alphabet == <<"a","b","c","d","e","f","g","h","i","j","k","l","m",
              "n","o","p","q","r","s","t","u","v","w","x","y","z">>
Rank(c) == IF \E i \in 1..26 : Alphabet[i] = c THEN CHOOSE i \in 1..26 : Alphabet[i] = c ELSE 0
RECURSIVE Before(_, _)
Before(a, b) ==
    IF a = <<>> THEN b # <<>>
    ELSE IF b = <<>> THEN FALSE
    ELSE IF Head(a) = Head(b) THEN Before(Tail(a), Tail(b))
    ELSE Rank(Head(a)) < Rank(Head(b))

\* sorted(list(self.metadata["other"])), line 655
RECURSIVE sorted(_)
sorted(keys) ==
    IF keys = {} THEN <<>>
    ELSE LET least == CHOOSE k \in keys : \A other \in keys \ {k} : Before(k, other)
         IN <<least>> \o sorted(keys \ {least})

\* lines 653-657: the lines of the entries of other
RECURSIVE OtherLines(_, _)
OtherLines(other, keys) ==
    IF keys = <<>> THEN <<>>
    ELSE get_printable_key_value(Head(keys), other[Head(keys)].v, other[Head(keys)].t = "str", TRUE)
         \o OtherLines(other, Tail(keys))

\* lines 664-668: the lines of the output files
RECURSIVE OutputLines(_)
OutputLines(values) ==
    IF values = <<>> THEN <<>>
    ELSE get_printable_key_value(Head(values)[1], <<Head(values)[2], Head(values)[3]>>, FALSE, TRUE)
         \o OutputLines(Tail(values))

\* Reporter.get_output_text, lines 626-676, for a store whose iteration
\* yields its keys in the given order
get_output_text(md, order, errs) ==
    (IF "inputfilename" \in DOMAIN md
     THEN <<Header("File Information")>>
          \o Lines(md, SelectSeq(INFO_FIELD_ORDER, LAMBDA k : k \in DOMAIN md))
     ELSE <<>>)
    \o <<Header("Standard Metadata")>>
    \o Lines(md, StandardFields(md, order))
    \o Lines(md, FallbackFields(md, order))
    \o (IF "other" \in DOMAIN md
        THEN <<Header("Other Metadata")>> \o OtherLines(md["other"], sorted(DOMAIN md["other"]))
        ELSE <<>>)
    \o (IF "debug" \in DOMAIN md
        THEN <<Header("Debug")>> \o [i \in 1..Len(md["debug"]) |-> Plain(md["debug"][i])]
        ELSE <<>>)
    \o (IF "outputfile" \in DOMAIN md
        THEN <<Header("Output Files")>> \o OutputLines(md["outputfile"])
        ELSE <<>>)
    \o (IF errs # <<>>
        THEN <<Header("Errors")>> \o [i \in 1..Len(errs) |-> Plain(errs[i])]
        ELSE <<>>)

\* the add_metadata calls whose report is rendered: fields of the standard
\* order, fields outside it, the catch-all and debug
TextRecords ==
    << Call(Field("url"), S(UrlPort)),
       Call(Field("credential"), L(<<S(Alice), S(Secret)>>)),
       Call(Field("address"), S(Host)),
       Call(Field("registrypath"), S(Note)),
       Call(Field("registrydata"), S(Xyz)),
       Call(Field("registrypathdata"), L(<<S(Note), S(Xyz)>>)),
       Call(Field("other"), D(<<<<S(Xyz), S(Alice)>>, <<S(Note), S(Secret)>>>>)),
       Call(Field("debug"), S(Note)) >>

TextSwitches ==
    [disabledebug : BOOLEAN, disableoutputfiles : {FALSE}, disabletempcleanup : {FALSE},
     disableautosubfieldparsing : BOOLEAN, disablevaluededup : {FALSE},
     base64outputfiles : {FALSE}, PY3 : {TRUE}]

\* reporter.error(message) called on the reporter
ErrorCall ==
    /\ pc = "idle"
    /\ calls < MaxRecords
    /\ errors' = error(errors, MessageOfRun(0))
    /\ calls' = calls + 1
    /\ UNCHANGED <<cfg, metadata, keyorder, outputfiles, data, p_filename, p_tempfilename,
                   p_managed_tempdir, fs, made, sys_stdout, debug_stdout, pc, frame,
                   runs, hist, obs>>

InitText == cfg \in TextSwitches /\ Constructed

NextText ==
    \/ \E i \in 1..Len(TextRecords) : AddMetadataCall(TextRecords[i])
    \/ ErrorCall

SpecText == InitText /\ [][NextText]_vars

\* keyorder names every key of the store once
KeysInOrder ==
    /\ {keyorder[i] : i \in 1..Len(keyorder)} = DOMAIN metadata
    /\ NoDuplicates(keyorder)

\* the sections of a report and the fields inside them, in order
Layout(text) ==
    LET Named(line) == line.kind = "section" \/ (line.kind = "field" /\ line.key # <<>>)
        named == SelectSeq(text, Named)
    IN [i \in 1..Len(named) |-> IF named[i].kind = "section" THEN named[i].text ELSE named[i].key]

\* the layout without the fields that the standard order does not name
LayoutOfNamed(md, order, errs) ==
    LET InOrder(k) == \A i \in 1..Len(FallbackFields(md, order)) : FallbackFields(md, order)[i] # k
    IN Layout(get_output_text(md, SelectSeq(order, InOrder), errs))

\* the store and the order of its keys after call c on [md, order]
Recorded(r, c) ==
    [md |-> add_metadata(r.md, c.key, c.value).md,
     order |-> KeysAfter(r.order, add_metadata(r.md, c.key, c.value).md, KeyTrace(c.key, c.value))]
Fresh == [md |-> <<>>, order |-> <<>>]

\* the reporter has taken TextRecords[i] and then TextRecords[j], two fields
TookBoth(i, j) ==
    /\ TextRecords[i].key # TextRecords[j].key
    /\ Made
    /\ hist.key = TextRecords[j].key
    /\ hist.value = TextRecords[j].value
    /\ hist.before = Recorded(Fresh, TextRecords[i]).md
    /\ hist.before # <<>>

\* C14 as claimed: the report of two record calls over two fields shows the
\* same sections and the same fields inside them, in the same order, as the
\* report of the same two calls made in the other order.
C14_LayoutFixed ==
    \A i, j \in 1..Len(TextRecords) :
        TookBoth(i, j) =>
            LET other == Recorded(Recorded(Fresh, TextRecords[j]), TextRecords[i])
            IN Layout(get_output_text(metadata, keyorder, errors))
                    = Layout(get_output_text(other.md, other.order, errors))

\* C14: the report of two record calls over two fields shows the same
\* sections in the same order as the report of the same calls made in the
\* other order, and the same fields in the same order inside them, but for
\* the fields that STANDARD_FIELD_ORDER does not name: both reports show the
\* same ones, after the standard fields, each report in the order in which
\* its store received their keys.
C14_Layout ==
    /\ \A i, j \in 1..Len(TextRecords) :
          TookBoth(i, j) =>
            LET other == Recorded(Recorded(Fresh, TextRecords[j]), TextRecords[i])
            IN /\ LayoutOfNamed(metadata, keyorder, errors) = LayoutOfNamed(other.md, other.order, errors)
               /\ {FallbackFields(metadata, keyorder)[k] : k \in 1..Len(FallbackFields(metadata, keyorder))}
                    = {FallbackFields(other.md, other.order)[k] :
                            k \in 1..Len(FallbackFields(other.md, other.order))}
    /\ Layout(get_output_text(metadata, keyorder, errors))
            = LET text == LayoutOfNamed(metadata, keyorder, errors)
                  cut == 1 + Len(StandardFields(metadata, keyorder))
              IN SubSeq(text, 1, cut)
                 \o [k \in 1..Len(FallbackFields(metadata, keyorder)) |->
                        N(FallbackFields(metadata, keyorder)[k])]
                 \o SubSeq(text, cut + 1, Len(text))

\* url and then credential were recorded with subfield parsing on: the report
\* shows url, urlpath, socketaddress, address, port, credential, username and
\* password in the standard order
C14_Witness ==
    /\ TookBoth(1, 2)
    /\ ~cfg.disableautosubfieldparsing
    /\ cfg.disabledebug
    /\ Layout(get_output_text(metadata, keyorder, errors))
            = <<<<"Standard Metadata">>, N("url"), N("urlpath"), N("socketaddress"), N("address"),
                N("port"), N("credential"), N("username"), N("password")>>

-----------------------------------------------------------------------------
(* The keys of the store. *)

\* the sub-keys of metadata['other']
SubKeys(md) == IF Has(md, "other") THEN DOMAIN md["other"] ELSE {}

\* C15: in every state of a run, every key of the metadata store names a
\* field of the taxonomy; a name that is no field appears only as a sub-key
\* of other.
C15_KeysInTaxonomy == DOMAIN metadata \subseteq FieldNames

\* a value was recorded under a key that names no field, on a store whose
\* other field holds a sub-key that names no field
C15_Witness ==
    /\ Made
    /\ hist.key = Field("nosuchkey")
    /\ Note \in SubKeys(metadata)
    /\ N("nosuchkey") \notin SubKeys(metadata)
    /\ "note" \notin FieldNames

-----------------------------------------------------------------------------
(* The arity of the stored tuples. *)

\* the number of elements that the tuples of a field are said to have
Arity ==
    [name \in {"credential", "socketaddress", "c2_socketaddress", "port", "listenport",
               "registrypathdata", "service"} |->
        CASE name \in {"socketaddress", "c2_socketaddress"} -> 3
          [] name = "service" -> 5
          [] OTHER -> 2]

\* C16: in every state, every tuple stored under credential, socketaddress,
\* c2_socketaddress, port, listenport, registrypathdata or service has the
\* arity of its field (2, 3, 3, 2, 2, 2, 5), whatever tuples were passed to
\* add_metadata.
C16_TupleArity ==
    \A name \in DOMAIN Arity :
        \A i \in 1..Len(Get(metadata, name)) : Len(Get(metadata, name)[i]) = Arity[name]

-----------------------------------------------------------------------------
(* port and listenport. *)

\* the text spells an integer between 0 and 65535
IsPortNumber(text) == ParseInt(text).ok /\ ParseInt(text).n \in 0..MaxPort

\* the call records a pair of texts under port or listenport
PortCall(c) ==
    /\ c.key \in {Field("port"), Field("listenport")}
    /\ c.value.t = "list"
    /\ Len(c.value.v) = 2
    /\ \A i \in 1..2 : c.value.v[i].t = "str"

\* the pair of the call
PortTuple(c) == <<c.value.v[1].v, c.value.v[2].v>>

\* the pair's number is no port number or its protocol is none of tcp, udp, icmp
BadPort(c) == ~IsPortNumber(PortTuple(c)[1]) \/ PortTuple(c)[2] \notin {Tcp, Udp, Icmp}

\* C17: for a reporter that captures debug and parses subfields, recording a
\* port or listenport pair whose first element is no integer string in
\* [0, 65535] or whose second element is none of tcp, udp, icmp returns
\* normally, adds a warning to debug and drops the value: the pair is not
\* stored under port or listenport.
C17_BadPortDropped ==
    (Made /\ ~cfg.disabledebug /\ ~cfg.disableautosubfieldparsing /\ PortCall(hist) /\ BadPort(hist)) =>
        /\ hist.exc = "none"
        /\ DebugGained >= 1
        /\ ~Contains(Get(metadata, NameOf(hist.key.v)), PortTuple(hist))

-----------------------------------------------------------------------------
(* The entry operation of the parsers. *)

\* the matched parsers in the order of the match
Matched == [i \in 1..Len(frame.parsers) |-> i]

\* the parsers whose constructor returned
Built(i) == Contains(obs.entered, i)

\* C18 as claimed: when run_parser returns, run has been entered exactly
\* once for each matched parser, in the order of the match, whatever happened
\* to that parser or to those before it, a constructor that raised included.
C18_EntryOncePerMatched == Returned => obs.entered = Matched

\* C18: when run_parser returns, every matched parser has been constructed
\* in the order of the match, whatever happened to those before it; run has
\* been entered exactly once, in that order, for each parser whose
\* constructor returned, and not at all for a parser whose constructor
\* raised, whose failure is in errors.
C18_EntryOnce ==
    Returned =>
        /\ obs.constructed = Matched
        /\ obs.entered = SelectSeq(Matched, Built)
        /\ \A i \in 1..Len(Matched) :
                ~Built(i) =>
                    /\ i \in obs.failed
                    /\ \E k \in 1..Len(errors) :
                            /\ errors[k].msg = "Error running parser"
                            /\ errors[k].parser_name = frame.parsers[i].parser_name

\* the constructor of the first of two parsers raised, and run was entered
\* for the second only
C18_Witness ==
    /\ Returned
    /\ Len(frame.parsers) = 2
    /\ obs.constructed = <<1, 2>>
    /\ obs.entered = <<2>>
    /\ 1 \in obs.failed

-----------------------------------------------------------------------------
(* The derivation graph of the cascades. *)

UrlHost == <<"h","t","t","p",":","/","/","b","a","d",".","c","o","m","/","x">>

\* texts and tuples of every kind that the cascades of lines 227-298 and
\* 323-385 tell apart
SampleTexts == {UrlPort, UrlV6, UrlV6Port, UrlFtp, UrlHost, NoUrl, Host, Image, FilePath, Note}
SampleTuples ==
    {<<Host, Port80, Tcp>>, <<Host>>, <<Alice, Secret>>, <<PortBig, Tcp>>, <<PortOdd, Tcp>>,
     <<Port80, Xyz>>, <<SvcName, Note, Xyz, Image, FilePath>>, <<SvcName, Note>>}

Range(seq) == {seq[i] : i \in 1..Len(seq)}

\* the steps that storing some value under the field may start
StepsOf(name) ==
    CASE name \in ListOfStrings -> UNION {Range(StringSteps(N(name), v)) : v \in SampleTexts}
      [] name \in ListOfStringTuples -> UNION {Range(TupleSteps(N(name), v)) : v \in SampleTuples}
      [] OTHER -> {}

\* the edges of the graph: the fields that the cascade of a field records
Derives ==
    [name \in FieldNames |-> {NameOf(st.key.v) : st \in {x \in StepsOf(name) : x.op = "add"}}]

\* the fields from which every chain of derivations has at most k steps
RECURSIVE Within(_)
Within(k) ==
    IF k = 0 THEN {name \in FieldNames : Derives[name] = {}}
    ELSE LET shorter == Within(k - 1)
         IN {name \in FieldNames : Derives[name] \subseteq shorter}

\* the fields that a chain of at most k derivations reaches from the field
RECURSIVE Reach(_, _)
Reach(name, k) ==
    IF k = 0 THEN {name}
    ELSE LET nearer == Reach(name, k - 1)
         IN nearer \cup UNION {Derives[n] : n \in nearer \cap FieldNames}

\* no chain of derivations that names no field twice has more steps
CascadeDepth == Cardinality(FieldNames) - 1

\* every chain of derivations ends: the graph has no cycle
Acyclic == Within(CascadeDepth) = FieldNames

\* the fields that the chains of derivations reach from each field
Reaches == [name \in FieldNames |-> Reach(name, CascadeDepth)]

\* the keys that the last call put into the store
Inserted == DOMAIN metadata \ DOMAIN hist.before

\* C19: the graph of the cascade rules over the field names has no cycle:
\* every chain of derivations ends within CascadeDepth steps, the fields it
\* names are fields of the taxonomy, and a debug warning derives nothing; so
\* every call of add_metadata ends, and what it put into the store lies
\* within CascadeDepth derivations of its key, or is the debug log.
C19_CascadeTerminates ==
    /\ Acyclic
    /\ \A name \in FieldNames : Derives[name] \subseteq FieldNames
    /\ Derives["debug"] = {}
    /\ (Made /\ ~KeyAbsent(hist)) =>
            Inserted \subseteq Reaches[NameOf(hist.key.v)] \cup {"debug"}

\* a c2_url was recorded on the empty store and its chain of derivations ran
\* to its end: url, socketaddress and then port, three derivations deep
C19_Witness ==
    /\ Made
    /\ hist.before = <<>>
    /\ hist.key = Field("c2_url")
    /\ hist.value = S(UrlPort)
    /\ "url" \in Derives["c2_url"]
    /\ "socketaddress" \in Derives["url"]
    /\ "port" \in Derives["socketaddress"]
    /\ Get(metadata, "port") = <<(<<Port80, Tcp>>)>>
    /\ "c2_url" \in Within(3) \ Within(2)
    /\ Within(3) = FieldNames

-----------------------------------------------------------------------------
(* add_metadata with disableautosubfieldparsing. *)

\* the call is accepted: its key names a field and its value has the shape
\* of the field and converts, a text for a listofstrings field, a list of
\* texts that is not empty for a listofstringtuples field, a mapping of texts
\* to texts for the dictofstrings field
Accepted(c) ==
    /\ ~KeyAbsent(c)
    /\ ~WrongShape(c)
    /\ LET type == fieldtype(convert_to_unicode(c.key).v)
       IN CASE type = "listofstrings" -> convert_to_unicode(c.value).ok
            [] type = "listofstringtuples" ->
                    Len(c.value.v) > 0 /\ ConvertAll(Iterate(c.value).items).ok
            [] OTHER -> \A i \in 1..Len(c.value.v) :
                            c.value.v[i][1].t = "str" /\ c.value.v[i][2].t = "str"

\* the value of an accepted call as the handler stores it
Raw(c) ==
    IF fieldtype(convert_to_unicode(c.key).v) = "listofstrings"
    THEN convert_to_unicode(c.value).v
    ELSE ConvertAll(Iterate(c.value).items).v

\* C20: with disableautosubfieldparsing set, an accepted call of add_metadata
\* returns normally, leaves the store holding the value under its key, and
\* changes nothing else: no other key is added, and every other field is as
\* it was.
C20_NoCascade ==
    (Made /\ cfg.disableautosubfieldparsing /\ Accepted(hist)) =>
        LET name == NameOf(convert_to_unicode(hist.key).v)
        IN /\ hist.exc = "none"
           /\ DOMAIN metadata = DOMAIN hist.before \cup {name}
           /\ \A k \in DOMAIN hist.before \ {name} : metadata[k] = hist.before[k]
           /\ IF name \in DictOfStrings
              THEN \A i \in 1..Len(hist.value.v) : hist.value.v[i][1].v \in DOMAIN metadata[name]
              ELSE /\ Contains(metadata[name], Raw(hist))
                   /\ metadata[name] \in {Get(hist.before, name), Append(Get(hist.before, name), Raw(hist))}

\* with disableautosubfieldparsing set, a url with host, port and path was
\* recorded on a store that held a credential: the url is stored, and no
\* socketaddress, address, port or urlpath
C20_Witness ==
    /\ Made
    /\ cfg.disableautosubfieldparsing
    /\ Accepted(hist)
    /\ hist.key = Field("url")
    /\ hist.value = S(UrlPort)
    /\ Has(hist.before, "credential")
    /\ DOMAIN metadata = {"credential", "url"}
    /\ metadata["url"] = <<UrlPort>>

-----------------------------------------------------------------------------
(* filename() and managed_tempdir() within one run. *)

\* the paths that the calls of the accessor returned in this run
Given(op) == {obs.given[i].path : i \in {k \in 1..Len(obs.given) : obs.given[k].op = op}}

\* the run was started from a path of the filesystem
FromPath == frame.filename # <<>>

\* C21: within one run each accessor returns one and the same path on all
\* its calls; a run started from a path gets that path from filename() and
\* never has a temp file; a run started from a buffer has its temp file
\* from the first call of filename() on and no second one; the managed temp
\* directory is there from the first call that needs it on and no second
\* one; nothing is created before such a call; and while the run lasts the
\* temp paths returned exist.
C21_LazyIdempotent ==
    /\ Cardinality(Given("filename")) <= 1
    /\ Cardinality(Given("managed_tempdir")) <= 1
    /\ FromPath => Given("filename") \subseteq {frame.filename}
    /\ FromPath => obs.created = Given("managed_tempdir")
    /\ ~FromPath =>
            /\ obs.created \ Given("filename") # {} <=> Len(obs.given) > 0
            /\ Cardinality(obs.created)
                    = (IF Len(obs.given) > 0 THEN 1 ELSE 0)
                      + (IF Given("filename") # {} THEN 1 ELSE 0)
            /\ Given("filename") \cup Given("managed_tempdir") \subseteq obs.created
    /\ pc = "parser" => obs.created \subseteq fs

\* a parser of a run started from a buffer has called filename() twice and
\* got the same temp file, which exists in the managed temp directory
C21_Witness ==
    /\ pc = "parser"
    /\ ~FromPath
    /\ Len(obs.given) = 2
    /\ \A i \in 1..2 : obs.given[i].op = "filename"
    /\ obs.given[1].path = obs.given[2].path
    /\ obs.given[1].path \in fs
    /\ Cardinality(obs.created) = 2

-----------------------------------------------------------------------------
(* The redirection of stdout during run_parser. *)

\* the entries of the debug log that are the line the parsers print
PrintedInDebug == {k \in 1..Len(Get(metadata, "debug")) : metadata["debug"][k] = Line}

\* C22: when run_parser returns, whether the parsers returned or raised or
\* none matched, sys.stdout is the sink that was installed when run_parser
\* was entered, and every line that a parser printed during the run is in
\* the debug log.
C22_StdoutScope ==
    Returned =>
        /\ sys_stdout = frame.orig_stdout
        /\ sys_stdout = "orig"
        /\ Cardinality(PrintedInDebug) = obs.printed

-----------------------------------------------------------------------------
(* The collision merge of metadata['other']. *)

\* the entries of the mappings recorded so far, in the order of recording
RECURSIVE Flatten(_)
Flatten(seqs) == IF seqs = <<>> THEN <<>> ELSE Head(seqs) \o Flatten(Tail(seqs))

IsText(x) == x.t = "str"

\* the distinct items of a sequence in the order in which they first occur
RECURSIVE FirstSeen(_)
FirstSeen(seq) ==
    IF seq = <<>> THEN <<>>
    ELSE LET earlier == FirstSeen(SubSeq(seq, 1, Len(seq) - 1))
         IN IF Contains(earlier, seq[Len(seq)]) THEN earlier ELSE Append(earlier, seq[Len(seq)])

\* the texts recorded for the sub-key so far, in the order of recording
TextsFor(k) ==
    LET entries == Flatten(obs.mappings)
        Mine(e) == e[1] = S(k) /\ IsText(e[2])
        mine == SelectSeq(entries, Mine)
    IN [i \in 1..Len(mine) |-> mine[i][2].v]

\* the sub-keys recorded so far
SubKeysRecorded == {e[1].v : e \in Range(Flatten(obs.mappings))}

\* the entries of the last call whose values are no texts
Dropped == {i \in 1..Len(hist.value.v) : ~IsText(hist.value.v[i][2])}

\* each sub-key for which a text was recorded, and no other, maps to the
\* single text recorded for it or to the list of the distinct texts recorded
\* for it in the order in which they were first seen
Merged ==
    LET other == Get(metadata, "other")
    IN /\ DOMAIN other = {k \in SubKeysRecorded : TextsFor(k) # <<>>}
       /\ \A k \in DOMAIN other :
              other[k] = IF Len(FirstSeen(TextsFor(k))) = 1
                         THEN S(FirstSeen(TextsFor(k))[1])
                         ELSE L(FirstSeen(TextsFor(k)))

\* C23 as claimed: after any sequence of add_metadata("other", mapping)
\* calls the sub-keys are merged, a repeated text adding nothing and no
\* earlier text being lost, and each entry whose value is no text is dropped
\* and logged in debug, the other entries of its call being merged all the
\* same.
C23_CollisionMergeLogged ==
    /\ Merged
    /\ Made => (hist.exc = "none" /\ DebugGained = Cardinality(Dropped))

\* C23: after any sequence of add_metadata("other", mapping) calls the
\* sub-keys are merged, a repeated text adding nothing and no earlier text
\* being lost, and each entry whose value is no text is dropped, and logged
\* in debug when the reporter captures debug and not at all when disabledebug
\* is set, the other entries of its call being merged all the same.
C23_CollisionMerge ==
    /\ Merged
    /\ Made =>
          /\ hist.exc = "none"
          /\ DebugGained = IF cfg.disabledebug THEN 0 ELSE Cardinality(Dropped)

\* three mappings were recorded: note holds three distinct texts in the order
\* of their recording, the last of them recorded after a number under xyz
\* that was dropped and logged
C23_Witness ==
    /\ Made
    /\ Len(obs.mappings) = 3
    /\ ~cfg.disabledebug
    /\ Has(metadata, "other")
    /\ Note \in DOMAIN metadata["other"]
    /\ metadata["other"][Note] = L(<<Alice, Secret, Xyz>>)
    /\ Cardinality(Dropped) = 2
    /\ DebugGained = 2

-----------------------------------------------------------------------------
(* output_file when the write fails. *)

\* the output_file calls of the run whose write was tried and failed
FailedWrites == {i \in 1..Len(obs.outputs) : ~cfg.disableoutputfiles /\ ~obs.outputs[i].written}

\* the entries of the debug log about a failed write
WriteWarnings ==
    {k \in 1..Len(Get(metadata, "debug")) :
        metadata["debug"][k][1] = "Failed to write output file: "}

\* the last call of the run that registered the name
LastCall(name) ==
    CHOOSE i \in 1..Len(obs.outputs) :
        /\ obs.outputs[i].filename = name
        /\ \A j \in (i + 1)..Len(obs.outputs) : obs.outputs[j].filename # name

\* whatever came of the writes, outputfiles holds the last artifact of each
\* name, the outputfile field holds the tuple of every call, and an entry
\* has its path exactly when output files are written and its write succeeded
RegistryKept ==
    /\ LastWriteWins
    /\ Range(Get(metadata, "outputfile")) = {TupleOfCall(obs.outputs[i]) : i \in 1..Len(obs.outputs)}
    /\ \A name \in DOMAIN outputfiles :
            outputfiles[name].path # <<>>
                <=> (~cfg.disableoutputfiles /\ obs.outputs[LastCall(name)].written)
    /\ \A name \in DOMAIN outputfiles :
            outputfiles[name].path # <<>> => outputfiles[name].path \in fs

\* C24 as claimed: the registry and the outputfile field are kept whatever
\* came of the writes, and every failed write is logged in debug.
C24_WriteFailureLogged ==
    /\ RegistryKept
    /\ Cardinality(WriteWarnings) = Cardinality(FailedWrites)

\* C24: the registry and the outputfile field are kept whatever came of the
\* writes, a failed write does not end the parser, and every failed write is
\* logged in debug when the reporter captures debug, and not at all when
\* disabledebug is set.
C24_WriteFailure ==
    /\ RegistryKept
    /\ Cardinality(WriteWarnings) = IF cfg.disabledebug THEN 0 ELSE Cardinality(FailedWrites)
    /\ (pc = "parser" /\ obs.failed = {}) => errors = <<>>

\* the write of the first output file of a parser failed and was logged, and
\* the parser went on to register a second one, which was written
C24_Witness ==
    /\ pc = "parser"
    /\ ~cfg.disabledebug
    /\ ~cfg.disableoutputfiles
    /\ Len(obs.outputs) = 2
    /\ FailedWrites = {1}
    /\ Cardinality(WriteWarnings) = 1
    /\ outputfiles[OutNameOfRun(1)].path = <<>>
    /\ outputfiles[OutNameOfRun(1)].data = OutData
    /\ outputfiles[OutNameOfRun(2)].path \in fs

-----------------------------------------------------------------------------
(* The temp paths and the handles that refer to them. *)

\* __cleanup would delete the path: it is the temp file or lies in the
\* managed temp directory
Referenced(path) ==
    \/ p_tempfilename # <<>> /\ path = p_tempfilename
    \/ p_managed_tempdir # <<>> /\ Under(path, p_managed_tempdir)

\* C25: with disabletempcleanup off, in every state reached by runs and by
\* calls of filename() and managed_tempdir() inside and between the runs,
\* every temp path that exists is referenced by the handles of the reporter,
\* so that the next __cleanup deletes it.
C25_NoTempForgotten == ~cfg.disabletempcleanup => \A path \in fs : Referenced(path)

-----------------------------------------------------------------------------
(* The c2 fields and the general fields. *)

\* every value of the first field is a value of the second
Included(c2, general) == Range(Get(metadata, c2)) \subseteq Range(Get(metadata, general))

\* the three c2 fields of a store
C2Fields(md) == [name \in {"c2_url", "c2_address", "c2_socketaddress"} |-> Get(md, name)]

\* C26: with subfield parsing on, after any sequence of add_metadata calls
\* every value of c2_url is in url, every value of c2_address is in address,
\* every tuple of c2_socketaddress is in socketaddress, and the first element
\* of every socketaddress tuple is in address; and a call that records under
\* url, address or socketaddress leaves c2_url, c2_address and
\* c2_socketaddress as they were.
C26_GeneralHoldsC2 ==
    ~cfg.disableautosubfieldparsing =>
        /\ Included("c2_url", "url")
        /\ Included("c2_address", "address")
        /\ Included("c2_socketaddress", "socketaddress")
        /\ \A t \in Range(Get(metadata, "socketaddress")) : Contains(Get(metadata, "address"), t[1])
        /\ (Made /\ hist.key \in {Field("url"), Field("address"), Field("socketaddress")})
                => C2Fields(metadata) = C2Fields(hist.before)

\* with subfield parsing on, a c2_url with host and port was recorded on a
\* store that held a general url and its parts: the three c2 fields hold the
\* parts of the c2_url alone, the three general fields hold them next to the
\* earlier values
C26_Witness ==
    /\ Made
    /\ ~cfg.disableautosubfieldparsing
    /\ hist.key = Field("c2_url")
    /\ hist.value = S(UrlPort)
    /\ Get(hist.before, "url") = <<UrlV6Port>>
    /\ Get(hist.before, "address") = <<HostV6>>
    /\ Get(metadata, "c2_url") = <<UrlPort>>
    /\ Get(metadata, "c2_socketaddress") = <<(<<Host, Port80, Tcp>>)>>
    /\ Get(metadata, "c2_address") = <<Host>>
    /\ Get(metadata, "url") = <<UrlV6Port, UrlPort>>
    /\ Get(metadata, "socketaddress") = <<(<<HostV6, Port80, Tcp>>), (<<Host, Port80, Tcp>>)>>
    /\ Get(metadata, "address") = <<HostV6, Host>>

-----------------------------------------------------------------------------
(* The same add_metadata call made twice in a row. *)

\* the step is an add_metadata call with the key and the value of the call
\* made right before it
Repeats ==
    /\ Made
    /\ Made'
    /\ calls' = calls + 1
    /\ hist'.key = hist.key
    /\ hist'.value = hist.value

\* C27: with value deduplication on, an add_metadata call that repeats the
\* call made right before it, with the same key and the same value, leaves
\* every field of the store but debug as the first call left it, the fields
\* that the call derives included, and adds no field.
C27_RepeatKeepsFindings ==
    [][(~cfg.disablevaluededup /\ Repeats) =>
            /\ SameExceptDebug'
            /\ DOMAIN metadata' \ {"debug"} = DOMAIN metadata \ {"debug"}]_vars

\* with deduplication on, a c2_url with host and port was recorded twice in a
\* row on a fresh store: the store before the second call is what one such
\* call makes of an empty store, and the url and the fields derived from it
\* hold one value each
C27_Witness ==
    /\ Made
    /\ ~cfg.disablevaluededup
    /\ ~cfg.disableautosubfieldparsing
    /\ calls = 2
    /\ hist.key = Field("c2_url")
    /\ hist.value = S(UrlPort)
    /\ hist.before = add_metadata(<<>>, Field("c2_url"), S(UrlPort)).md
    /\ Get(hist.before, "c2_url") = <<UrlPort>>
    /\ Get(metadata, "c2_url") = <<UrlPort>>
    /\ Get(metadata, "socketaddress") = <<(<<Host, Port80, Tcp>>)>>
    /\ Get(metadata, "c2_address") = <<Host>>
    /\ Get(metadata, "address") = <<Host>>

====
